---- MODULE Spec2Model ----
(***************************************************************************)
(* Model of the fitnessChronicle tRPC server: the label router and the     *)
(* fitness router over the per-user Firestore collections                  *)
(* users/{uid}/labels, users/{uid}/dayAssignments and                      *)
(* users/{uid}/fitnessLogs, the auth context and the protectedProcedure    *)
(* middleware, and the month-range computation of the month queries.       *)
(*                                                                         *)
(* Strings the code compares, splits or formats (dates, months) are        *)
(* sequences of character codes ("-" is 45, "0".."9" are 48..57).          *)
(* Server timestamps (createdAt, updatedAt) are left out.                  *)
(*                                                                         *)
(* In the specifications Spec, SpecAssign, SpecMonthly, SpecCrud,           *)
(* SpecFrame and SpecVariants a handler runs to completion before the next *)
(* request starts. In SpecConc asignLabelToDay runs one await at a time    *)
(* and calls interleave; in SpecFail a write it awaits may be rejected by  *)
(* the store; in SpecHeal getLabelAsignmentByDate runs one await at a      *)
(* time beside other requests. SpecVariants holds the emoji router, the    *)
(* earlier version of the label router. SpecMigrate, SpecScripts and       *)
(* SpecPaging model the bulk scripts convertSets.ts and                    *)
(* deleteTodaysLogs.ts.                                                    *)
(***************************************************************************)
EXTENDS Integers, Sequences, FiniteSets, TLC

VARIABLES labels, assignments, nextLabel, nextAssign, last, mq, logs, nextLog, calls, job

vars == <<labels, assignments, nextLabel, nextAssign, last, mq, logs, nextLog, calls, job>>

\* ------------------------------------------------------------------ bounds
\* Exercise log documents ever created, over all users.
MaxLogId == 2

\* asignLabelToDay calls in flight at once in specification SpecConc.
MaxCalls == 2

\* Label documents, and assignment documents, ever created over all users in
\* specification SpecCrud.
CrudMaxId == 1

\* Label documents ever created, over all users (auto-generated ids are unique
\* across the store and never reused).
MaxLabelId == 2

\* Day-assignment documents ever created, over all users.
MaxAssignId == 2

\* Sets in one exercise log handed to the set migration.
MaxSets == 2

\* Runs of the set migration over the same log.
MaxRuns == 2

\* Documents in the fitnessLogs collection group when a bulk script starts.
MaxDocs == 951

\* ------------------------------------------------------- character strings
Dash == 45

Zero == 48

\* Number.prototype.toString() of a non-negative integer.
RECURSIVE toString(_)
toString(n) == IF n < 10 THEN <<Zero + n>> ELSE toString(n \div 10) \o <<Zero + (n % 10)>>

\* String.prototype.padStart(width, '0').
RECURSIVE padStart(_, _)
padStart(s, width) == IF Len(s) >= width THEN s ELSE padStart(<<Zero>> \o s, width)

\* Number(s) of a string of decimal digits.
RECURSIVE Number(_)
Number(s) == IF Len(s) = 0 THEN 0 ELSE 10 * Number(SubSeq(s, 1, Len(s) - 1)) + (s[Len(s)] - Zero)

\* s.split('-'): the pieces of s between dashes.
RECURSIVE split(_)
split(s) ==
    IF \A i \in 1..Len(s) : s[i] # Dash THEN <<s>>
    ELSE LET i == CHOOSE k \in 1..Len(s) : s[k] = Dash /\ \A j \in 1..(k - 1) : s[j] # Dash
         IN  <<SubSeq(s, 1, i - 1)>> \o split(SubSeq(s, i + 1, Len(s)))

\* Firestore's order on string values (by character code, shorter prefix first).
RECURSIVE strLeq(_, _)
strLeq(a, b) ==
    IF Len(a) = 0 THEN TRUE
    ELSE IF Len(b) = 0 THEN FALSE
    ELSE IF a[1] # b[1] THEN a[1] < b[1]
    ELSE strLeq(Tail(a), Tail(b))

\* A date literal "YYYY-MM-DD" as the client sends it (z.string().date()).
IsoDate(y, m, d) ==
    padStart(toString(y), 4) \o <<Dash>> \o padStart(toString(m), 2) \o <<Dash>> \o padStart(toString(d), 2)

\* ------------------------------------------------------------------ inputs
Users == {"u1", "u2"}

NoUser == "null"

\* Authorization headers: absent, without the "Bearer " prefix, "Bearer " with
\* nothing after it, a token verifyIdToken rejects, a valid token of a user.
Headers == {"none", "malformed", "empty", "bad", "tok-u1", "tok-u2"}

D1 == IsoDate(2024, 2, 29)

D2 == IsoDate(2024, 3, 1)

DateInputs == {D1, D2}

LabelIdInputs == 1..MaxLabelId

LogIdInputs == 1..MaxLogId

\* The dates field of an addLabel input: absent, or an array the client sends.
DatesInputs == {<<>>, <<D1, D1>>}

NoDate == <<>>


\* Month inputs of the store specifications ("YYYY-MM").
MonthInputs == {SubSeq(D1, 1, 7), SubSeq(D2, 1, 7)}

LabelTextInputs == {"A", "B"}

\* ------------------------------------------------------------ JavaScript Date
\* ECMAScript DayFromYear: the day number of 1 January of year y (1970 is 0).
DayFromYear(y) ==
    365 * (y - 1970) + ((y - 1969) \div 4) - ((y - 1901) \div 100) + ((y - 1601) \div 400)

\* ECMAScript InLeapYear.
InLeapYear(y) == (y % 4 = 0) /\ ((y % 100 # 0) \/ (y % 400 = 0))

\* Day within the year on which month index mn (0..11) starts.
MonthStart(mn, y) ==
    LET leap == IF InLeapYear(y) THEN 1 ELSE 0
    IN  CASE mn = 0 -> 0
          [] mn = 1 -> 31
          [] mn = 2 -> 59 + leap
          [] mn = 3 -> 90 + leap
          [] mn = 4 -> 120 + leap
          [] mn = 5 -> 151 + leap
          [] mn = 6 -> 181 + leap
          [] mn = 7 -> 212 + leap
          [] mn = 8 -> 243 + leap
          [] mn = 9 -> 273 + leap
          [] mn = 10 -> 304 + leap
          [] mn = 11 -> 334 + leap

\* ECMAScript MakeDay(year, month, date), month being a 0-based index that may
\* run past 11.
MakeDay(year, month, date) ==
    LET ym == year + (month \div 12)
        mn == month % 12
    IN  DayFromYear(ym) + MonthStart(mn, ym) + date - 1

\* ECMAScript YearFromTime, on day numbers.
YearFromDay(day) ==
    LET approx == 1970 + (day \div 365)
    IN  CHOOSE y \in (approx - 8)..(approx + 8) : DayFromYear(y) <= day /\ day < DayFromYear(y + 1)

\* ECMAScript DateFromTime, on day numbers: the day of the month.
DateFromDay(day) ==
    LET y == YearFromDay(day)
        dayWithinYear == day - DayFromYear(y)
        mn == CHOOSE k \in 0..11 :
                  /\ MonthStart(k, y) <= dayWithinYear
                  /\ (k = 11 \/ dayWithinYear < MonthStart(k + 1, y))
    IN  dayWithinYear - MonthStart(mn, y) + 1

\* new Date(year, month - 1, 0).getDate(): the off-by-one month index.
lastDayOfPreviousMonth(year, month) ==
    LET yr == IF 0 <= year /\ year <= 99 THEN 1900 + year ELSE year
    IN  DateFromDay(MakeDay(yr, month - 1, 0))

\* new Date(year, month, 0).getDate(): years 0..99 mean 1900..1999, day 0 of
\* month index `month` is the last day of the month before it.
lastDayOf(year, month) ==
    LET yr == IF 0 <= year /\ year <= 99 THEN 1900 + year ELSE year
    IN  DateFromDay(MakeDay(yr, month, 0))

\* getAllLabelsFromMonth / getAllEmojisFromMonth: [startDateStr, endDateStr].
labelMonthRange(date) ==
    LET parts == split(date)
        year == Number(parts[1])
        month == Number(parts[2])
        lastDay == lastDayOf(year, month)
        prefix == toString(year) \o <<Dash>> \o padStart(toString(month), 2) \o <<Dash>>
    IN  [start |-> prefix \o <<Zero, Zero + 1>>,
         end |-> prefix \o padStart(toString(lastDay), 2)]

\* getExerciseLogsByMonth: [startDate, endDate].
fitnessMonthRange(month) ==
    LET parts == split(month)
        year == Number(parts[1])
        monthNum == Number(parts[2])
        lastDay == lastDayOf(year, monthNum)
    IN  [start |-> month \o <<Dash, Zero, Zero + 1>>,
         end |-> month \o <<Dash>> \o padStart(toString(lastDay), 2)]


\* ------------------------------------------------------------------- auth
\* req.headers.authorization?.split('Bearer ')[1]; "" stands for a value that
\* is undefined or empty (both falsy).
bearerToken(header) ==
    CASE header = "none" -> ""
      [] header = "malformed" -> ""
      [] header = "empty" -> ""
      [] OTHER -> header

\* auth.verifyIdToken: the uid of a valid token; "throws" for any other.
verifyIdToken(idToken) ==
    CASE idToken = "tok-u1" -> "u1"
      [] idToken = "tok-u2" -> "u2"
      [] OTHER -> "throws"

\* createContext without its try/catch: a token that fails verification is
\* taken for the first user's.
createContextUnverified(header) ==
    LET idToken == bearerToken(header)
    IN  IF idToken # "" /\ verifyIdToken(idToken) # "throws" THEN verifyIdToken(idToken)
        ELSE IF idToken # "" THEN "u1"
        ELSE NoUser

\* createContext: ctx.user, the verified user or null.
createContext(header) ==
    LET idToken == bearerToken(header)
    IN  IF idToken # "" /\ verifyIdToken(idToken) # "throws" THEN verifyIdToken(idToken)
        ELSE NoUser

\* enforceUserIsAuthed: TRUE when the middleware calls next().
enforceUserIsAuthed(user) == user # NoUser

\* ------------------------------------------------------- Firestore helpers
\* Array.prototype.includes.
includes(arr, x) == \E i \in 1..Len(arr) : arr[i] = x

\* FieldValue.arrayUnion(x): appends x unless the array holds it.
arrayUnion(arr, x) == IF includes(arr, x) THEN arr ELSE Append(arr, x)

\* FieldValue.arrayRemove that leaves the array as it is.
arrayRemoveNothing(arr, x) == arr

\* FieldValue.arrayRemove(x): drops every occurrence of x.
arrayRemove(arr, x) == SelectSeq(arr, LAMBDA e : e # x)

\* How often x occurs in arr.
count(arr, x) == Cardinality({i \in 1..Len(arr) : arr[i] = x})

\* DocumentReference.delete that removes nothing.
docDeleteNothing(coll, id) == coll

\* DocumentReference.delete(): the collection without document id.
docDelete(coll, id) == [k \in (DOMAIN coll) \ {id} |-> coll[k]]

\* A query that finds no document.
whereDateLimit1Empty(coll, date) == {{}}

\* .where('date', '==', date).limit(1).get(): the snapshots the query may
\* return, each the set of ids of its docs (none, or one matching document).
whereDateLimit1(coll, date) ==
    LET matching == {a \in DOMAIN coll : coll[a].date = date}
    IN  IF matching = {} THEN {{}} ELSE {{a} : a \in matching}

\* .where('date', '>=', start).where('date', '<=', end).get(): ids of the docs.
whereDateBetween(coll, start, end) ==
    {a \in DOMAIN coll : strLeq(start, coll[a].date) /\ strLeq(coll[a].date, end)}

\* The collection with no documents.
EmptyColl == [k \in {} |-> 0]

\* Documents of collection coll dated date.
docsByDate(coll, date) == {a \in DOMAIN coll : coll[a].date = date}


\* ---------------------------------------------------------------- handlers
\* What a handler leaves behind for one user: the labels and dayAssignments
\* collections, the id counters, and the response (code "OK" for a returned
\* value; isNull for a returned null; id, message, pairs as returned).
Outcome(L, A, nL, nA, code, isNull, id, message, reads, writes, pairs) ==
    [L |-> L, A |-> A, nL |-> nL, nA |-> nA, code |-> code, isNull |-> isNull, id |-> id,
     message |-> message, reads |-> reads, writes |-> writes, pairs |-> pairs]

\* labelRouter.addLabel: a new label document holding the validated input.
addLabelHandler(L, A, nL, nA, label, description, dates) ==
    Outcome(L @@ (nL :> [label |-> label, description |-> description, dates |-> dates]),
            A, nL + 1, nA, "OK", FALSE, 0, "", 0, 1, <<>>)

\* labelRouter.getLabelById: the document, or NOT_FOUND.
getLabelByIdHandler(L, A, nL, nA, id) ==
    IF id \notin DOMAIN L
    THEN Outcome(L, A, nL, nA, "NOT_FOUND", FALSE, 0, "Fitness log not found.", 1, 0, <<>>)
    ELSE Outcome(L, A, nL, nA, "OK", FALSE, id, "", 1, 0, <<L[id]>>)

\* The ids in descending order (documents are created with ascending ids).
RECURSIVE descending(_)
descending(ids) ==
    IF ids = {} THEN <<>>
    ELSE LET top == CHOOSE a \in ids : \A b \in ids : b <= a
         IN  <<top>> \o descending(ids \ {top})

\* labelRouter.getAllLabels: every label document, latest created first.
getAllLabelsHandler(L, A, nL, nA) ==
    LET order == descending(DOMAIN L)
    IN  Outcome(L, A, nL, nA, "OK", FALSE, 0, "", 1, 0, [i \in 1..Len(order) |-> L[order[i]]])

\* editLabel that writes the whole request, its dates included.
editLabelWholeRequest(L, A, nL, nA, id, label, description, dates) ==
    IF id \notin DOMAIN L
    THEN Outcome(L, A, nL, nA, "NOT_FOUND", FALSE, 0, "Label not found.", 1, 0, <<>>)
    ELSE LET L1 == [L EXCEPT ![id] = [label |-> label, description |-> description, dates |-> dates]]
         IN  Outcome(L1, A, nL, nA, "OK", FALSE, id, "", 2, 1, <<L1[id]>>)

\* labelRouter.editLabel: of the request only id, label and description are
\* read; the document is updated with label and description and read back.
editLabelHandler(L, A, nL, nA, id, label, description, dates) ==
    IF id \notin DOMAIN L
    THEN Outcome(L, A, nL, nA, "NOT_FOUND", FALSE, 0, "Label not found.", 1, 0, <<>>)
    ELSE LET L1 == [L EXCEPT ![id].label = label, ![id].description = description]
         IN  Outcome(L1, A, nL, nA, "OK", FALSE, id, "", 2, 1, <<L1[id]>>)

\* labelRouter.deleteLabel.
deleteLabelHandler(L, A, nL, nA, id) ==
    IF id \notin DOMAIN L
    THEN Outcome(L, A, nL, nA, "NOT_FOUND", FALSE, 0, "Fitness log not found.", 1, 0, <<>>)
    ELSE Outcome(docDelete(L, id), A, nL, nA, "OK", FALSE, id, "Label deleted successfully!", 1, 1, <<>>)

\* asignLabelToDay with the label check after the assignment upsert.
asignLabelToDayUnchecked(L, A, nL, nA, date, labelId, snap) ==
    LET isUpdate == snap # {}
        assignmentId == IF isUpdate THEN CHOOSE a \in snap : TRUE ELSE nA
        A1 == IF isUpdate THEN [A EXCEPT ![assignmentId].labelId = labelId]
              ELSE A @@ (nA :> [date |-> date, labelId |-> labelId])
    IN  Outcome(L, A1, nL, IF isUpdate THEN nA ELSE nA + 1,
                IF labelId \in DOMAIN L THEN "OK" ELSE "NOT_FOUND", FALSE, assignmentId, "", 2, 1, <<>>)

\* asignLabelToDay that always answers with the message of a new assignment.
asignLabelToDayAlwaysAssigned(L, A, nL, nA, date, labelId, snap) ==
    IF labelId \notin DOMAIN L
    THEN Outcome(L, A, nL, nA, "NOT_FOUND", FALSE, 0, "Label not found.", 1, 0, <<>>)
    ELSE
        LET isUpdate == snap # {}
            assignmentId == IF isUpdate THEN CHOOSE a \in snap : TRUE ELSE nA
            A1 == IF isUpdate THEN [A EXCEPT ![assignmentId].labelId = labelId]
                  ELSE A @@ (nA :> [date |-> date, labelId |-> labelId])
        IN  Outcome([L EXCEPT ![labelId].dates = arrayUnion(@, date)], A1, nL,
                    IF isUpdate THEN nA ELSE nA + 1, "OK", FALSE, assignmentId,
                    "Label assigned to day successfully!", 2, 2,
                    <<[date |-> date, labelId |-> labelId]>>)

\* labelRouter.asignLabelToDay. snap is the snapshot of the limit(1) query.
\* DocumentReference.update() of a document that does not exist rejects; the
\* rejection is no TRPCError, so the call ends in INTERNAL_SERVER_ERROR with
\* the earlier writes kept.
asignLabelToDayHandler(L, A, nL, nA, date, labelId, snap) ==
    IF labelId \notin DOMAIN L
    THEN Outcome(L, A, nL, nA, "NOT_FOUND", FALSE, 0, "Label not found.", 1, 0, <<>>)
    ELSE
        LET labelDoc == L[labelId]
            isUpdate == snap # {}
            assignmentId == IF isUpdate THEN CHOOSE a \in snap : TRUE ELSE nA
            previousLabelId == IF isUpdate THEN A[assignmentId].labelId ELSE 0
            A1 == IF isUpdate THEN [A EXCEPT ![assignmentId].labelId = labelId]
                  ELSE A @@ (nA :> [date |-> date, labelId |-> labelId])
            nA1 == IF isUpdate THEN nA ELSE nA + 1
            currentDates == labelDoc.dates
            addDate == ~includes(currentDates, date)
            L1 == IF addDate THEN [L EXCEPT ![labelId].dates = arrayUnion(@, date)] ELSE L
            removePrevious == isUpdate /\ previousLabelId # 0 /\ previousLabelId # labelId
            previousMissing == removePrevious /\ previousLabelId \notin DOMAIN L1
            L2 == IF removePrevious /\ ~previousMissing
                  THEN [L1 EXCEPT ![previousLabelId].dates = arrayRemove(@, date)]
                  ELSE L1
            writes == 1 + (IF addDate THEN 1 ELSE 0) + (IF removePrevious /\ ~previousMissing THEN 1 ELSE 0)
        IN  IF previousMissing
            THEN Outcome(L2, A1, nL, nA1, "INTERNAL_SERVER_ERROR", FALSE, 0, "", 2, writes, <<>>)
            ELSE Outcome(L2, A1, nL, nA1, "OK", FALSE, assignmentId,
                         IF isUpdate THEN "Label assignment updated successfully!"
                         ELSE "Label assigned to day successfully!",
                         2, writes, <<[date |-> date, labelId |-> labelId]>>)

\* getLabelAsignmentByDate that returns null for an assignment whose label is
\* gone and keeps the assignment.
getLabelAsignmentByDateKeepOrphan(L, A, nL, nA, date, snap) ==
    IF snap = {}
    THEN Outcome(L, A, nL, nA, "OK", TRUE, 0, "", 1, 0, <<>>)
    ELSE
        LET assignmentId == CHOOSE a \in snap : TRUE
        IN  IF A[assignmentId].labelId \notin DOMAIN L
            THEN Outcome(L, A, nL, nA, "OK", TRUE, 0, "", 2, 0, <<>>)
            ELSE Outcome(L, A, nL, nA, "OK", FALSE, assignmentId, "", 2, 0, <<>>)

\* getLabelAsignmentByDate whose self-heal also takes the date off every
\* label that lists it.
getLabelAsignmentByDateHealsDates(L, A, nL, nA, date, snap) ==
    IF snap = {}
    THEN Outcome(L, A, nL, nA, "OK", TRUE, 0, "", 1, 0, <<>>)
    ELSE
        LET assignmentId == CHOOSE a \in snap : TRUE
        IN  IF A[assignmentId].labelId \notin DOMAIN L
            THEN Outcome([id \in DOMAIN L |-> [L[id] EXCEPT !.dates = arrayRemove(@, date)]],
                         docDelete(A, assignmentId), nL, nA, "OK", TRUE, 0, "", 2, 2, <<>>)
            ELSE Outcome(L, A, nL, nA, "OK", FALSE, assignmentId, "", 2, 0, <<>>)

\* labelRouter.getLabelAsignmentByDate: null when the date has no assignment;
\* an assignment whose label is gone is deleted and null returned.
getLabelAsignmentByDateHandler(L, A, nL, nA, date, snap) ==
    IF snap = {}
    THEN Outcome(L, A, nL, nA, "OK", TRUE, 0, "", 1, 0, <<>>)
    ELSE
        LET assignmentId == CHOOSE a \in snap : TRUE
            assignmentData == A[assignmentId]
        IN  IF assignmentData.labelId \notin DOMAIN L
            THEN Outcome(L, docDelete(A, assignmentId), nL, nA, "OK", TRUE, 0, "", 2, 1, <<>>)
            ELSE Outcome(L, A, nL, nA, "OK", FALSE, assignmentId, "", 2, 0, <<>>)

\* deleteAssignment that answers success when the date has no assignment.
deleteAssignmentLenient(L, A, nL, nA, date, snap) ==
    IF snap = {}
    THEN Outcome(L, A, nL, nA, "OK", FALSE, 0, "Label assignment deleted successfully!", 1, 0, <<>>)
    ELSE LET assignmentId == CHOOSE a \in snap : TRUE
         IN  Outcome(L, docDelete(A, assignmentId), nL, nA, "OK", FALSE, assignmentId,
                     "Label assignment deleted successfully!", 1, 1, <<>>)

\* deleteAssignment that also removes the date from the dates list of the
\* label the assignment pointed to.
deleteAssignmentCascade(L, A, nL, nA, date, snap) ==
    IF snap = {}
    THEN Outcome(L, A, nL, nA, "NOT_FOUND", FALSE, 0, "No label assignment found for this date.", 1, 0, <<>>)
    ELSE LET assignmentId == CHOOSE a \in snap : TRUE
             labelId == A[assignmentId].labelId
         IN  Outcome(IF labelId \in DOMAIN L THEN [L EXCEPT ![labelId].dates = arrayRemove(@, date)] ELSE L,
                     docDelete(A, assignmentId), nL, nA, "OK", FALSE, assignmentId,
                     "Label assignment deleted successfully!", 1, 2, <<>>)

\* labelRouter.deleteAssignment: deletes the assignment document only.
deleteAssignmentHandler(L, A, nL, nA, date, snap) ==
    IF snap = {}
    THEN Outcome(L, A, nL, nA, "NOT_FOUND", FALSE, 0, "No label assignment found for this date.", 1, 0, <<>>)
    ELSE LET assignmentId == CHOOSE a \in snap : TRUE
         IN  Outcome(L, docDelete(A, assignmentId), nL, nA, "OK", FALSE, assignmentId,
                     "Label assignment deleted successfully!", 1, 1, <<>>)

\* The documents ids of coll in query order: by date, then by document id.
RECURSIVE orderByDate(_, _)
orderByDate(coll, ids) ==
    IF ids = {} THEN <<>>
    ELSE LET first == CHOOSE a \in ids : \A b \in ids :
                          \/ a = b
                          \/ (coll[a].date # coll[b].date /\ strLeq(coll[a].date, coll[b].date))
                          \/ (coll[a].date = coll[b].date /\ a < b)
         IN  <<first>> \o orderByDate(coll, ids \ {first})

\* getAllLabelsFromMonth that reads the label of every assignment found.
getAllLabelsFromMonthPerAssignment(L, A, nL, nA, date) ==
    LET range == labelMonthRange(date)
        found == orderByDate(A, whereDateBetween(A, range.start, range.end))
        missing == {found[i] : i \in {j \in 1..Len(found) : A[found[j]].labelId \notin DOMAIN L}}
        valid == SelectSeq(found, LAMBDA a : a \notin missing)
        pairs == [i \in 1..Len(valid) |-> [date |-> A[valid[i]].date, label |-> L[A[valid[i]].labelId].label]]
    IN  Outcome(L, [k \in (DOMAIN A) \ missing |-> A[k]], nL, nA, "OK", FALSE, 0, "",
                1 + Len(found), Cardinality(missing), pairs)

\* labelRouter.getAllLabelsFromMonth: one label read per distinct labelId; for
\* each missing label the first assignment found with that labelId is
\* deleted; assignments of missing labels are left out of the result.
getAllLabelsFromMonthHandler(L, A, nL, nA, date) ==
    LET range == labelMonthRange(date)
        found == orderByDate(A, whereDateBetween(A, range.start, range.end))
        labelIds == {A[found[i]].labelId : i \in 1..Len(found)}
        assignmentsToDelete == {id \in labelIds : id \notin DOMAIN L}
        find(labelId) == found[CHOOSE i \in 1..Len(found) :
                                   /\ A[found[i]].labelId = labelId
                                   /\ \A j \in 1..(i - 1) : A[found[j]].labelId # labelId]
        deleted == {find(labelId) : labelId \in assignmentsToDelete}
        valid == SelectSeq(found, LAMBDA a : A[a].labelId \notin assignmentsToDelete)
        pairs == [i \in 1..Len(valid) |-> [date |-> A[valid[i]].date, label |-> L[A[valid[i]].labelId].label]]
    IN  IF Len(found) = 0
        THEN Outcome(L, A, nL, nA, "OK", FALSE, 0, "", 1, 0, <<>>)
        ELSE Outcome(L, [k \in (DOMAIN A) \ deleted |-> A[k]], nL, nA, "OK", FALSE, 0, "",
                     1 + Cardinality(labelIds), Cardinality(deleted), pairs)


\* ------------------------------------------------------------ emoji variant
\* The emoji router is the earlier version of the label router: its emojis
\* collection and the emojiId field of its assignments are held in L and in
\* the labelId field of A, the emoji text in the label field.

\* emojiRouter.addEmoji: a new emoji document holding the validated input.
addEmojiHandler(L, A, nL, nA, emoji, description, dates) ==
    Outcome(L @@ (nL :> [label |-> emoji, description |-> description, dates |-> dates]),
            A, nL + 1, nA, "OK", FALSE, 0, "", 0, 1, <<>>)

\* deleteEmoji that also deletes the assignments pointing to the emoji.
deleteEmojiCascade(L, A, nL, nA, id) ==
    IF id \notin DOMAIN L
    THEN Outcome(L, A, nL, nA, "NOT_FOUND", FALSE, 0, "Fitness log not found.", 1, 0, <<>>)
    ELSE Outcome(docDelete(L, id), [k \in {a \in DOMAIN A : A[a].labelId # id} |-> A[k]], nL, nA,
                 "OK", FALSE, id, "Emoji deleted successfully!", 1, 1, <<>>)

\* emojiRouter.deleteEmoji.
deleteEmojiHandler(L, A, nL, nA, id) ==
    IF id \notin DOMAIN L
    THEN Outcome(L, A, nL, nA, "NOT_FOUND", FALSE, 0, "Fitness log not found.", 1, 0, <<>>)
    ELSE Outcome(docDelete(L, id), A, nL, nA, "OK", FALSE, id, "Emoji deleted successfully!", 1, 1, <<>>)

\* emojiRouter.asignEmojiToDay. snap is the snapshot of the limit(1) query.
asignEmojiToDayHandler(L, A, nL, nA, date, emojiId, snap) ==
    IF emojiId \notin DOMAIN L
    THEN Outcome(L, A, nL, nA, "NOT_FOUND", FALSE, 0, "Emoji not found.", 1, 0, <<>>)
    ELSE
        LET isUpdate == snap # {}
            assignmentId == IF isUpdate THEN CHOOSE a \in snap : TRUE ELSE nA
            previousEmojiId == IF isUpdate THEN A[assignmentId].labelId ELSE 0
            A1 == IF isUpdate THEN [A EXCEPT ![assignmentId].labelId = emojiId]
                  ELSE A @@ (nA :> [date |-> date, labelId |-> emojiId])
            nA1 == IF isUpdate THEN nA ELSE nA + 1
            currentDates == L[emojiId].dates
            addsDate == ~includes(currentDates, date)
            L1 == IF addsDate THEN [L EXCEPT ![emojiId].dates = arrayUnion(@, date)] ELSE L
            removesDate == isUpdate /\ previousEmojiId # emojiId
            writes == 1 + (IF addsDate THEN 1 ELSE 0)
        IN  IF removesDate /\ previousEmojiId \notin DOMAIN L1
            THEN Outcome(L1, A1, nL, nA1, "INTERNAL_SERVER_ERROR", FALSE, 0, "", 2, writes, <<>>)
            ELSE Outcome(IF removesDate
                         THEN [L1 EXCEPT ![previousEmojiId].dates = arrayRemove(@, date)] ELSE L1,
                         A1, nL, nA1, "OK", FALSE, assignmentId,
                         IF isUpdate THEN "Emoji assignment updated successfully!"
                         ELSE "Emoji assigned to day successfully!",
                         2, writes + (IF removesDate THEN 1 ELSE 0),
                         <<[date |-> date, emojiId |-> emojiId]>>)

\* getEmojiAsignmentByDate that deletes an assignment whose emoji is gone and
\* returns null.
getEmojiAsignmentByDateSelfHeal(L, A, nL, nA, date, snap) ==
    IF snap = {}
    THEN Outcome(L, A, nL, nA, "OK", TRUE, 0, "", 1, 0, <<>>)
    ELSE
        LET assignmentId == CHOOSE a \in snap : TRUE
            assignmentData == A[assignmentId]
        IN  IF assignmentData.labelId \notin DOMAIN L
            THEN Outcome(L, docDelete(A, assignmentId), nL, nA, "OK", TRUE, 0, "", 2, 1, <<>>)
            ELSE Outcome(L, A, nL, nA, "OK", FALSE, assignmentId, "", 2, 0,
                         <<[date |-> assignmentData.date, emojiId |-> assignmentData.labelId,
                            emoji |-> L[assignmentData.labelId]]>>)

\* emojiRouter.getEmojiAsignmentByDate: null when the date has no assignment;
\* the assignment without emoji data when its emoji is gone; the assignment
\* with the emoji document otherwise.
getEmojiAsignmentByDateHandler(L, A, nL, nA, date, snap) ==
    IF snap = {}
    THEN Outcome(L, A, nL, nA, "OK", TRUE, 0, "", 1, 0, <<>>)
    ELSE
        LET assignmentId == CHOOSE a \in snap : TRUE
            assignmentData == A[assignmentId]
        IN  IF assignmentData.labelId \notin DOMAIN L
            THEN Outcome(L, A, nL, nA, "OK", FALSE, assignmentId, "", 2, 0,
                         <<[date |-> assignmentData.date, emojiId |-> assignmentData.labelId]>>)
            ELSE Outcome(L, A, nL, nA, "OK", FALSE, assignmentId, "", 2, 0,
                         <<[date |-> assignmentData.date, emojiId |-> assignmentData.labelId,
                            emoji |-> L[assignmentData.labelId]]>>)

\* emojiRouter.getAllEmojisFromMonth: one emoji read per distinct emojiId; a
\* pair for every assignment found, with "" for an emoji that is gone.
getAllEmojisFromMonthHandler(L, A, nL, nA, date) ==
    LET range == labelMonthRange(date)
        found == orderByDate(A, whereDateBetween(A, range.start, range.end))
        emojiIds == {A[found[i]].labelId : i \in 1..Len(found)}
        emojiMap(emojiId) == IF emojiId \in DOMAIN L THEN L[emojiId].label ELSE ""
        pairs == [i \in 1..Len(found) |-> [date |-> A[found[i]].date, emoji |-> emojiMap(A[found[i]].labelId)]]
    IN  IF Len(found) = 0
        THEN Outcome(L, A, nL, nA, "OK", FALSE, 0, "", 1, 0, <<>>)
        ELSE Outcome(L, A, nL, nA, "OK", FALSE, 0, "", 1 + Cardinality(emojiIds), 0, pairs)


\* ------------------------------------------------------------ exercise logs
\* What a fitnessRouter handler leaves: the caller's fitnessLogs collection G,
\* the id counter, and the response.
LogOutcome(G, nG, code, id, message, reads, writes, pairs) ==
    [G |-> G, nG |-> nG, code |-> code, id |-> id, message |-> message,
     reads |-> reads, writes |-> writes, pairs |-> pairs]

\* The ids in ascending order.
RECURSIVE ascending(_)
ascending(ids) ==
    IF ids = {} THEN <<>>
    ELSE LET low == CHOOSE a \in ids : \A b \in ids : a <= b
         IN  <<low>> \o ascending(ids \ {low})

\* Array.prototype.sort() of a set of strings.
RECURSIVE sort(_)
sort(strs) ==
    IF strs = {} THEN <<>>
    ELSE LET low == CHOOSE a \in strs : \A b \in strs : strLeq(a, b)
         IN  <<low>> \o sort(strs \ {low})

\* fitnessRouter.addExerciseLog: a new document; nothing is returned.
addExerciseLogHandler(G, nG, date, activity) ==
    LogOutcome(G @@ (nG :> [date |-> date, activity |-> activity]), nG + 1, "OK", 0, "", 0, 1, <<>>)

\* fitnessRouter.getExerciseLogByDate: the caller's logs of that date.
getExerciseLogByDateHandler(G, nG, date) ==
    LET order == ascending(docsByDate(G, date))
    IN  LogOutcome(G, nG, "OK", 0, "", 1, 0,
                   [i \in 1..Len(order) |-> [id |-> order[i], date |-> G[order[i]].date,
                                             activity |-> G[order[i]].activity]])

\* fitnessRouter.getExerciseLogsByMonth: the sorted distinct dates of the
\* caller's logs in the month range.
getExerciseLogsByMonthHandler(G, nG, month) ==
    LET range == fitnessMonthRange(month)
        found == whereDateBetween(G, range.start, range.end)
    IN  LogOutcome(G, nG, "OK", 0, "", 1, 0, sort({G[k].date : k \in found}))

\* fitnessRouter.getExerciseLogById.
getExerciseLogByIdHandler(G, nG, logId) ==
    IF logId \notin DOMAIN G
    THEN LogOutcome(G, nG, "NOT_FOUND", 0, "Fitness log not found.", 1, 0, <<>>)
    ELSE LogOutcome(G, nG, "OK", logId, "", 1, 0,
                    <<[id |-> logId, date |-> G[logId].date, activity |-> G[logId].activity]>>)

\* fitnessRouter.deleteExerciseLog.
deleteExerciseLogHandler(G, nG, id) ==
    IF id \notin DOMAIN G
    THEN LogOutcome(G, nG, "NOT_FOUND", 0, "Fitness log not found.", 1, 0, <<>>)
    ELSE LogOutcome(docDelete(G, id), nG, "OK", id, "Fitness log deleted successfully!", 1, 1, <<>>)

\* editExerciseLog that writes the document whether or not it exists.
editExerciseLogUpsert(G, nG, logId, date, activity) ==
    LogOutcome([k \in (DOMAIN G) \cup {logId} |-> IF k = logId THEN [date |-> date, activity |-> activity] ELSE G[k]],
               nG, "OK", logId, "Fitness log updated successfully!", 1, 1, <<>>)

\* fitnessRouter.editExerciseLog: the document is updated with the request data.
editExerciseLogHandler(G, nG, logId, date, activity) ==
    IF logId \notin DOMAIN G
    THEN LogOutcome(G, nG, "NOT_FOUND", 0, "Fitness log not found.", 1, 0, <<>>)
    ELSE LogOutcome([G EXCEPT ![logId] = [date |-> date, activity |-> activity]], nG, "OK", logId,
                    "Fitness log updated successfully!", 1, 1, <<>>)

\* ----------------------------------------------------------------- requests
\* The record of the latest request: the procedure, its header and resolved
\* user, its date and labelId inputs, and its response.
Response(op, header, user, date, labelId, code, isNull, id, message, reads, writes, pairs) ==
    [op |-> op, header |-> header, user |-> user, date |-> date, labelId |-> labelId,
     code |-> code, isNull |-> isNull, id |-> id, message |-> message,
     reads |-> reads, writes |-> writes, pairs |-> pairs]

\* protectedProcedure with ctx.user null: the middleware throws UNAUTHORIZED
\* whatever the procedure, and the handler does not run.
Reject(header) ==
    /\ last' = Response("protectedProcedure", header, NoUser, NoDate, 0, "UNAUTHORIZED", FALSE, 0,
                        "You must be logged in to access this resource.", 0, 0, <<>>)
    /\ UNCHANGED <<labels, assignments, nextLabel, nextAssign, mq, job, logs, nextLog, calls>>

\* Handlers that write their outcome under every user.
CommitShared(op, header, user, date, labelId, out) ==
    /\ labels' = [u \in Users |-> out.L]
    /\ assignments' = [u \in Users |-> out.A]
    /\ nextLabel' = out.nL
    /\ nextAssign' = out.nA
    /\ last' = Response(op, header, user, date, labelId, out.code, out.isNull, out.id,
                        out.message, out.reads, out.writes, out.pairs)
    /\ UNCHANGED <<mq, job, logs, nextLog, calls>>

\* The handler ran for user and left outcome out.
Commit(op, header, user, date, labelId, out) ==
    /\ labels' = [labels EXCEPT ![user] = out.L]
    /\ assignments' = [assignments EXCEPT ![user] = out.A]
    /\ nextLabel' = out.nL
    /\ nextAssign' = out.nA
    /\ last' = Response(op, header, user, date, labelId, out.code, out.isNull, out.id,
                        out.message, out.reads, out.writes, out.pairs)
    /\ UNCHANGED <<mq, job, logs, nextLog, calls>>

\* The fitnessRouter handler ran for user and left outcome out; id is the
\* document id of the request (0 when it has none).
CommitLog(op, header, user, date, id, out) ==
    /\ logs' = [logs EXCEPT ![user] = out.G]
    /\ nextLog' = out.nG
    /\ last' = Response(op, header, user, date, id, out.code, FALSE, out.id,
                        out.message, out.reads, out.writes, out.pairs)
    /\ UNCHANGED <<labels, assignments, nextLabel, nextAssign, mq, job, calls>>

addLabel(in) ==
    \E header \in in.headers :
        LET user == createContext(header)
        IN  IF ~enforceUserIsAuthed(user) THEN Reject(header)
            ELSE \E label \in in.labelTexts, description \in in.descriptions, dates \in in.datesInputs :
                     /\ nextLabel <= in.maxLabelId
                     /\ Commit("addLabel", header, user, NoDate, 0,
                               addLabelHandler(labels[user], assignments[user], nextLabel,
                                               nextAssign, label, description, dates))

deleteLabel(in) ==
    \E header \in in.headers :
        LET user == createContext(header)
        IN  IF ~enforceUserIsAuthed(user) THEN Reject(header)
            ELSE \E id \in LabelIdInputs :
                     Commit("deleteLabel", header, user, NoDate, id,
                            deleteLabelHandler(labels[user], assignments[user], nextLabel,
                                               nextAssign, id))

asignLabelToDay(in) ==
    \E header \in in.headers :
        LET user == createContext(header)
        IN  IF ~enforceUserIsAuthed(user) THEN Reject(header)
            ELSE \E date \in in.dates, labelId \in LabelIdInputs :
                     \E snap \in whereDateLimit1(assignments[user], date) :
                         /\ snap = {} => nextAssign <= in.maxAssignId
                         /\ Commit("asignLabelToDay", header, user, date, labelId,
                                   asignLabelToDayHandler(labels[user], assignments[user], nextLabel,
                                                          nextAssign, date, labelId, snap))

getLabelAsignmentByDate(in) ==
    \E header \in in.headers :
        LET user == createContext(header)
        IN  IF ~enforceUserIsAuthed(user) THEN Reject(header)
            ELSE \E date \in in.dates :
                     \E snap \in whereDateLimit1(assignments[user], date) :
                         Commit("getLabelAsignmentByDate", header, user, date, 0,
                                getLabelAsignmentByDateHandler(labels[user], assignments[user], nextLabel,
                                                               nextAssign, date, snap))

deleteAssignment(in) ==
    \E header \in in.headers :
        LET user == createContext(header)
        IN  IF ~enforceUserIsAuthed(user) THEN Reject(header)
            ELSE \E date \in in.dates :
                     \E snap \in whereDateLimit1(assignments[user], date) :
                         Commit("deleteAssignment", header, user, date, 0,
                                deleteAssignmentHandler(labels[user], assignments[user], nextLabel,
                                                        nextAssign, date, snap))

getAllLabelsFromMonth(in) ==
    \E header \in in.headers :
        LET user == createContext(header)
        IN  IF ~enforceUserIsAuthed(user) THEN Reject(header)
            ELSE \E date \in in.months :
                     Commit("getAllLabelsFromMonth", header, user, date, 0,
                            getAllLabelsFromMonthHandler(labels[user], assignments[user], nextLabel,
                                                         nextAssign, date))

getLabelById(in) ==
    \E header \in in.headers :
        LET user == createContext(header)
        IN  IF ~enforceUserIsAuthed(user) THEN Reject(header)
            ELSE \E id \in LabelIdInputs :
                     Commit("getLabelById", header, user, NoDate, id,
                            getLabelByIdHandler(labels[user], assignments[user], nextLabel,
                                                nextAssign, id))

getAllLabels(in) ==
    \E header \in in.headers :
        LET user == createContext(header)
        IN  IF ~enforceUserIsAuthed(user) THEN Reject(header)
            ELSE Commit("getAllLabels", header, user, NoDate, 0,
                        getAllLabelsHandler(labels[user], assignments[user], nextLabel, nextAssign))

editLabel(in) ==
    \E header \in in.headers :
        LET user == createContext(header)
        IN  IF ~enforceUserIsAuthed(user) THEN Reject(header)
            ELSE \E id \in LabelIdInputs, label \in in.labelTexts,
                    description \in in.descriptions, dates \in in.datesInputs :
                     Commit("editLabel", header, user, NoDate, id,
                            editLabelHandler(labels[user], assignments[user], nextLabel,
                                             nextAssign, id, label, description, dates))

addExerciseLog(in) ==
    \E header \in in.headers :
        LET user == createContext(header)
        IN  IF ~enforceUserIsAuthed(user) THEN Reject(header)
            ELSE \E date \in in.dates, activity \in in.activities :
                     /\ nextLog <= MaxLogId
                     /\ CommitLog("addExerciseLog", header, user, date, 0,
                                  addExerciseLogHandler(logs[user], nextLog, date, activity))

getExerciseLogByDate(in) ==
    \E header \in in.headers :
        LET user == createContext(header)
        IN  IF ~enforceUserIsAuthed(user) THEN Reject(header)
            ELSE \E date \in in.dates :
                     CommitLog("getExerciseLogByDate", header, user, date, 0,
                               getExerciseLogByDateHandler(logs[user], nextLog, date))

getExerciseLogsByMonth(in) ==
    \E header \in in.headers :
        LET user == createContext(header)
        IN  IF ~enforceUserIsAuthed(user) THEN Reject(header)
            ELSE \E month \in in.months :
                     CommitLog("getExerciseLogsByMonth", header, user, month, 0,
                               getExerciseLogsByMonthHandler(logs[user], nextLog, month))

getExerciseLogById(in) ==
    \E header \in in.headers :
        LET user == createContext(header)
        IN  IF ~enforceUserIsAuthed(user) THEN Reject(header)
            ELSE \E logId \in LogIdInputs :
                     CommitLog("getExerciseLogById", header, user, NoDate, logId,
                               getExerciseLogByIdHandler(logs[user], nextLog, logId))

deleteExerciseLog(in) ==
    \E header \in in.headers :
        LET user == createContext(header)
        IN  IF ~enforceUserIsAuthed(user) THEN Reject(header)
            ELSE \E id \in LogIdInputs :
                     CommitLog("deleteExerciseLog", header, user, NoDate, id,
                               deleteExerciseLogHandler(logs[user], nextLog, id))

editExerciseLog(in) ==
    \E header \in in.headers :
        LET user == createContext(header)
        IN  IF ~enforceUserIsAuthed(user) THEN Reject(header)
            ELSE \E logId \in LogIdInputs, date \in in.dates, activity \in in.activities :
                     CommitLog("editExerciseLog", header, user, NoDate, logId,
                               editExerciseLogHandler(logs[user], nextLog, logId, date, activity))

\* ------------------------------------- asignLabelToDay, one await at a time
\* A call of asignLabelToDay in flight: pc is the await it is at, the other
\* fields are the handler's locals. raced tells that another call was in
\* flight while this one was.
Call(pc, header, user, date, labelId, currentDates, assignmentId, isUpdate, previousLabelId, writes, raced, code) ==
    [pc |-> pc, header |-> header, user |-> user, date |-> date, labelId |-> labelId,
     currentDates |-> currentDates, assignmentId |-> assignmentId, isUpdate |-> isUpdate,
     previousLabelId |-> previousLabelId, writes |-> writes, raced |-> raced, code |-> code]

IdleCall == Call("idle", "none", NoUser, NoDate, 0, <<>>, 0, FALSE, 0, 0, FALSE, "")

InFlight(c) == c.pc \notin {"idle", "done"}

\* The call returned or threw: its locals are gone, its inputs and result stay.
Returned(c, code) ==
    Call("done", c.header, c.user, c.date, c.labelId, <<>>, c.assignmentId, c.isUpdate, 0,
         c.writes, c.raced, code)

\* The response of a call that returned or threw.
CallResponse(c) ==
    Response("asignLabelToDay", c.header, c.user, c.date, c.labelId, c.code, FALSE,
             IF c.code = "OK" THEN c.assignmentId ELSE 0,
             IF c.code = "NOT_FOUND" THEN "Label not found."
             ELSE IF c.code # "OK" THEN ""
             ELSE IF c.isUpdate THEN "Label assignment updated successfully!"
             ELSE "Label assigned to day successfully!",
             IF c.code = "NOT_FOUND" THEN 1 ELSE 2, c.writes,
             IF c.code = "OK" THEN <<[date |-> c.date, labelId |-> c.labelId]>> ELSE <<>>)

\* previousLabelId && previousLabelId !== labelId, for an update.
removesPrevious(c) == c.isUpdate /\ c.previousLabelId # 0 /\ c.previousLabelId # c.labelId

\* A handler that never adds the date to the label it assigns.
afterUpsertSkipsAddDate(c) ==
    IF removesPrevious(c) THEN [c EXCEPT !.pc = "removePrevious"] ELSE Returned(c, "OK")

\* Where the call goes after the assignment upsert: to the arrayUnion write
\* when the label document it read does not list the date, otherwise on.
afterUpsert(c) ==
    IF ~includes(c.currentDates, c.date) THEN [c EXCEPT !.pc = "addDate"]
    ELSE IF removesPrevious(c) THEN [c EXCEPT !.pc = "removePrevious"]
    ELSE Returned(c, "OK")

afterAddDate(c) ==
    IF removesPrevious(c) THEN [c EXCEPT !.pc = "removePrevious"] ELSE Returned(c, "OK")

\* An upsert that creates a document whether or not the query found one.
upsertAlwaysCreates(A, nA, c) ==
    [A |-> A @@ (nA :> [date |-> c.date, labelId |-> c.labelId]), nA |-> nA + 1, id |-> nA]

\* The assignment upsert: update() of the document the query found, or set()
\* of a new document.
upsertAssignment(A, nA, c) ==
    IF c.isUpdate
    THEN [A |-> [A EXCEPT ![c.assignmentId].labelId = c.labelId], nA |-> nA, id |-> c.assignmentId]
    ELSE [A |-> A @@ (nA :> [date |-> c.date, labelId |-> c.labelId]), nA |-> nA + 1, id |-> nA]

\* A handler that undoes its assignment upsert when a later write rejects.
assignmentsRolledBack(A, c) ==
    IF c.pc = "upsert" \/ c.assignmentId \notin DOMAIN A THEN A
    ELSE IF c.isUpdate THEN [A EXCEPT ![c.assignmentId].labelId = c.previousLabelId]
    ELSE docDelete(A, c.assignmentId)

\* The assignments collection after a write of call c rejected: the handler
\* has no catch block, the writes made so far stay.
assignmentsAfterRejection(A, c) == A

\* The call ends: its response is the latest response.
Finish(s, c) ==
    /\ calls' = [calls EXCEPT ![s] = c]
    /\ last' = CallResponse(c)

\* The call goes on to its next await.
Continue(s, c) ==
    /\ calls' = [calls EXCEPT ![s] = c]
    /\ UNCHANGED last

Proceed(s, c) == IF c.pc = "done" THEN Finish(s, c) ELSE Continue(s, c)

\* A request arrives and the handler reads the label document.
callLabelGet(in) ==
    \E s \in DOMAIN calls :
        /\ ~InFlight(calls[s])
        /\ \E header \in in.headers :
               LET user == createContext(header)
               IN  IF ~enforceUserIsAuthed(user) THEN Reject(header)
                   ELSE \E date \in in.dates, labelId \in LabelIdInputs :
                            LET others == {t \in DOMAIN calls : t # s /\ InFlight(calls[t])}
                                c == Call("query", header, user, date, labelId, <<>>, 0, FALSE, 0, 0,
                                          others # {}, "")
                            IN  /\ IF labelId \notin DOMAIN labels[user]
                                   THEN /\ calls' = [calls EXCEPT ![s] = Returned(c, "NOT_FOUND")]
                                        /\ last' = CallResponse(Returned(c, "NOT_FOUND"))
                                   ELSE /\ calls' = [t \in DOMAIN calls |->
                                                       IF t = s THEN [c EXCEPT !.currentDates = labels[user][labelId].dates]
                                                       ELSE IF t \in others THEN [calls[t] EXCEPT !.raced = TRUE]
                                                       ELSE calls[t]]
                                        /\ UNCHANGED last
                                /\ UNCHANGED <<labels, assignments, nextLabel, nextAssign, mq, job, logs, nextLog>>

\* The limit(1) query for the date's assignment.
callQuery ==
    \E s \in DOMAIN calls :
        /\ calls[s].pc = "query"
        /\ \E snap \in whereDateLimit1(assignments[calls[s].user], calls[s].date) :
               LET c == calls[s]
                   isUpdate == snap # {}
                   assignmentId == IF isUpdate THEN CHOOSE a \in snap : TRUE ELSE 0
               IN  Continue(s, [c EXCEPT !.pc = "upsert", !.isUpdate = isUpdate,
                                         !.assignmentId = assignmentId,
                                         !.previousLabelId = IF isUpdate
                                                             THEN assignments[c.user][assignmentId].labelId
                                                             ELSE 0])
        /\ UNCHANGED <<labels, assignments, nextLabel, nextAssign, mq, job, logs, nextLog>>

\* The assignment upsert. update() of a document that is gone rejects.
callUpsert(in) ==
    \E s \in DOMAIN calls :
        /\ calls[s].pc = "upsert"
        /\ LET c == calls[s]
           IN  IF c.isUpdate /\ c.assignmentId \notin DOMAIN assignments[c.user]
               THEN /\ Finish(s, Returned(c, "INTERNAL_SERVER_ERROR"))
                    /\ UNCHANGED <<assignments, nextAssign>>
               ELSE LET w == upsertAssignment(assignments[c.user], nextAssign, c)
                    IN  /\ ~c.isUpdate => nextAssign <= in.maxAssignId
                        /\ assignments' = [assignments EXCEPT ![c.user] = w.A]
                        /\ nextAssign' = w.nA
                        /\ Proceed(s, afterUpsert([c EXCEPT !.assignmentId = w.id, !.writes = 1]))
        /\ UNCHANGED <<labels, nextLabel, mq, job, logs, nextLog>>

\* labelRef.update({dates: arrayUnion(date)}).
callAddDate ==
    \E s \in DOMAIN calls :
        /\ calls[s].pc = "addDate"
        /\ LET c == calls[s]
           IN  IF c.labelId \notin DOMAIN labels[c.user]
               THEN /\ Finish(s, Returned(c, "INTERNAL_SERVER_ERROR"))
                    /\ UNCHANGED labels
               ELSE /\ labels' = [labels EXCEPT ![c.user][c.labelId].dates = arrayUnion(@, c.date)]
                    /\ Proceed(s, afterAddDate([c EXCEPT !.writes = @ + 1]))
        /\ UNCHANGED <<assignments, nextLabel, nextAssign, mq, job, logs, nextLog>>

\* previousLabelRef.update({dates: arrayRemove(date)}).
callRemovePrevious ==
    \E s \in DOMAIN calls :
        /\ calls[s].pc = "removePrevious"
        /\ LET c == calls[s]
           IN  IF c.previousLabelId \notin DOMAIN labels[c.user]
               THEN /\ Finish(s, Returned(c, "INTERNAL_SERVER_ERROR"))
                    /\ UNCHANGED labels
               ELSE /\ labels' = [labels EXCEPT ![c.user][c.previousLabelId].dates = arrayRemove(@, c.date)]
                    /\ Finish(s, Returned([c EXCEPT !.writes = @ + 1], "OK"))
        /\ UNCHANGED <<assignments, nextLabel, nextAssign, mq, job, logs, nextLog>>

\* The store rejects the write the call is waiting for.
callWriteRejected ==
    \E s \in DOMAIN calls :
        /\ calls[s].pc \in {"upsert", "addDate", "removePrevious"}
        /\ assignments' = [assignments EXCEPT ![calls[s].user] = assignmentsAfterRejection(@, calls[s])]
        /\ Finish(s, Returned(calls[s], "INTERNAL_SERVER_ERROR"))
        /\ UNCHANGED <<labels, nextLabel, nextAssign, mq, job, logs, nextLog>>

\* ------------------------------ getLabelAsignmentByDate, one await at a time
\* A call of getLabelAsignmentByDate in flight keeps the document it read in
\* assignmentId and labelId (assignmentDoc and assignmentData.labelId).
ReadCall(pc, header, user, date, assignmentId, labelId, writes) ==
    Call(pc, header, user, date, labelId, <<>>, assignmentId, FALSE, 0, writes, FALSE, "")

\* The read returns null or the assignment: its slot is free again.
ReadFinish(s, c, isNull, reads) ==
    /\ calls' = [calls EXCEPT ![s] = IdleCall]
    /\ last' = Response("getLabelAsignmentByDate", c.header, c.user, c.date, 0, "OK", isNull,
                        IF isNull THEN 0 ELSE c.assignmentId, "", reads, c.writes, <<>>)

\* A request arrives and the handler runs the limit(1) query for the date.
readQuery(in) ==
    \E s \in DOMAIN calls :
        /\ calls[s].pc = "idle"
        /\ \E header \in in.headers :
               LET user == createContext(header)
               IN  IF ~enforceUserIsAuthed(user) THEN Reject(header)
                   ELSE \E date \in in.dates :
                            \E snap \in whereDateLimit1(assignments[user], date) :
                                /\ IF snap = {}
                                   THEN ReadFinish(s, ReadCall("idle", header, user, date, 0, 0, 0), TRUE, 1)
                                   ELSE LET assignmentId == CHOOSE a \in snap : TRUE
                                        IN  Continue(s, ReadCall("readLabel", header, user, date, assignmentId,
                                                                 assignments[user][assignmentId].labelId, 0))
                                /\ UNCHANGED <<labels, assignments, nextLabel, nextAssign, mq, job, logs, nextLog>>

\* labelRef.get() for the labelId the query returned.
readLabelGet ==
    \E s \in DOMAIN calls :
        /\ calls[s].pc = "readLabel"
        /\ LET c == calls[s]
           IN  IF c.labelId \in DOMAIN labels[c.user]
               THEN ReadFinish(s, c, FALSE, 2)
               ELSE Continue(s, [c EXCEPT !.pc = "readDelete"])
        /\ UNCHANGED <<labels, assignments, nextLabel, nextAssign, mq, job, logs, nextLog>>

\* assignmentDoc.ref.delete(): deletes the document the query returned,
\* whatever it holds by now.
readDelete ==
    \E s \in DOMAIN calls :
        /\ calls[s].pc = "readDelete"
        /\ LET c == calls[s]
           IN  /\ assignments' = [assignments EXCEPT ![c.user] = docDelete(@, c.assignmentId)]
               /\ ReadFinish(s, [c EXCEPT !.writes = 1], TRUE, 2)
        /\ UNCHANGED <<labels, nextLabel, nextAssign, mq, job, logs, nextLog>>

\* ---------------------------------------------------------- specifications
\* The requests of specifications Spec and SpecAssign.
Inputs == [headers |-> Headers, dates |-> DateInputs, months |-> MonthInputs,
           labelTexts |-> LabelTextInputs, descriptions |-> {"d"}, datesInputs |-> DatesInputs,
           activities |-> {"run"}, maxLabelId |-> MaxLabelId, maxAssignId |-> MaxAssignId]

\* No asignLabelToDay call is in flight.
NoCalls == <<>>

NoRange == [start |-> <<>>, end |-> <<>>]

\* No bulk script is running.
NoJob == [script |-> "none", pc |-> "done"]

MqIdle == [phase |-> "idle", year |-> 0, monthNum |-> 0, month |-> <<>>,
           labelRange |-> NoRange, fitnessRange |-> NoRange]

Init ==
    /\ labels = [u \in Users |-> EmptyColl]
    /\ assignments = [u \in Users |-> EmptyColl]
    /\ nextLabel = 1
    /\ nextAssign = 1
    /\ last = Response("init", "none", NoUser, NoDate, 0, "OK", FALSE, 0, "", 0, 0, <<>>)
    /\ mq = MqIdle
    /\ logs = [u \in Users |-> EmptyColl]
    /\ nextLog = 1
    /\ calls = NoCalls
    /\ job = NoJob

Next ==
    \/ addLabel(Inputs)
    \/ deleteLabel(Inputs)
    \/ asignLabelToDay(Inputs)
    \/ getLabelAsignmentByDate(Inputs)
    \/ deleteAssignment(Inputs)
    \/ getAllLabelsFromMonth(Inputs)

Spec == Init /\ [][Next]_vars

\* Assignment mutations only, from labels whose dates lists are empty: every
\* label id belongs to some user's labels collection, no assignment exists.
InitAssign ==
    /\ \E owner \in [1..MaxLabelId -> Users] :
           labels = [u \in Users |->
                        [id \in {k \in 1..MaxLabelId : owner[k] = u} |->
                            [label |-> "A", description |-> "d", dates |-> <<>>]]]
    /\ assignments = [u \in Users |-> EmptyColl]
    /\ nextLabel = MaxLabelId + 1
    /\ nextAssign = 1
    /\ last = Response("init", "none", NoUser, NoDate, 0, "OK", FALSE, 0, "", 0, 0, <<>>)
    /\ mq = MqIdle
    /\ logs = [u \in Users |-> EmptyColl]
    /\ nextLog = 1
    /\ calls = NoCalls
    /\ job = NoJob

NextAssign ==
    \/ asignLabelToDay(Inputs)
    \/ deleteAssignment(Inputs)

SpecAssign == InitAssign /\ [][NextAssign]_vars

\* The month query over a store built by one user, with two dates in one
\* month and one in the next.
D0 == IsoDate(2024, 2, 1)

MonthlyInputs == [headers |-> {"tok-u1"}, dates |-> {D0, D1, D2}, months |-> MonthInputs,
                  labelTexts |-> LabelTextInputs, descriptions |-> {"d"}, datesInputs |-> {<<>>},
                  activities |-> {"run"}, maxLabelId |-> MaxLabelId, maxAssignId |-> MaxAssignId]

NextMonthly ==
    \/ addLabel(MonthlyInputs)
    \/ deleteLabel(MonthlyInputs)
    \/ asignLabelToDay(MonthlyInputs)
    \/ deleteAssignment(MonthlyInputs)
    \/ getAllLabelsFromMonth(MonthlyInputs)

SpecMonthly == Init /\ [][NextMonthly]_vars

\* Every procedure of the label and fitness routers, for two users, over one
\* date and one month.
CrudInputs == [headers |-> {"tok-u1", "tok-u2"}, dates |-> {D1}, months |-> {SubSeq(D1, 1, 7)},
               labelTexts |-> LabelTextInputs, descriptions |-> {"d", "e"}, datesInputs |-> DatesInputs,
               activities |-> {"run", "swim"}, maxLabelId |-> CrudMaxId, maxAssignId |-> CrudMaxId]

NextCrud ==
    \/ addLabel(CrudInputs)
    \/ getLabelById(CrudInputs)
    \/ getAllLabels(CrudInputs)
    \/ getAllLabelsFromMonth(CrudInputs)
    \/ deleteLabel(CrudInputs)
    \/ editLabel(CrudInputs)
    \/ asignLabelToDay(CrudInputs)
    \/ getLabelAsignmentByDate(CrudInputs)
    \/ deleteAssignment(CrudInputs)
    \/ addExerciseLog(CrudInputs)
    \/ getExerciseLogByDate(CrudInputs)
    \/ getExerciseLogsByMonth(CrudInputs)
    \/ getExerciseLogById(CrudInputs)
    \/ deleteExerciseLog(CrudInputs)
    \/ editExerciseLog(CrudInputs)

SpecCrud == Init /\ [][NextCrud]_vars

\* asignLabelToDay calls of one user for one date, over that user's labels.
ConcInputs == [headers |-> {"tok-u1"}, dates |-> {D1}, months |-> {SubSeq(D1, 1, 7)},
               labelTexts |-> LabelTextInputs, descriptions |-> {"d"}, datesInputs |-> {<<>>},
               activities |-> {"run"}, maxLabelId |-> MaxLabelId, maxAssignId |-> MaxAssignId]

InitCalls(slots) ==
    /\ labels = [u \in Users |->
                    IF u = "u1"
                    THEN [id \in 1..MaxLabelId |-> [label |-> "A", description |-> "d", dates |-> <<>>]]
                    ELSE EmptyColl]
    /\ assignments = [u \in Users |-> EmptyColl]
    /\ nextLabel = MaxLabelId + 1
    /\ nextAssign = 1
    /\ last = Response("init", "none", NoUser, NoDate, 0, "OK", FALSE, 0, "", 0, 0, <<>>)
    /\ mq = MqIdle
    /\ logs = [u \in Users |-> EmptyColl]
    /\ nextLog = 1
    /\ calls = [s \in slots |-> IdleCall]
    /\ job = NoJob

\* Up to MaxCalls calls in flight, every store operation succeeding.
InitConc == InitCalls(1..MaxCalls)

NextConc ==
    \/ callLabelGet(ConcInputs)
    \/ callQuery
    \/ callUpsert(ConcInputs)
    \/ callAddDate
    \/ callRemovePrevious

SpecConc == InitConc /\ [][NextConc]_vars

\* One call at a time, each of its writes succeeding or being rejected.
InitFail == InitCalls({1})

NextFail ==
    \/ callLabelGet(ConcInputs)
    \/ callQuery
    \/ callUpsert(ConcInputs)
    \/ callAddDate
    \/ callRemovePrevious
    \/ callWriteRejected

SpecFail == InitFail /\ [][NextFail]_vars

\* One getLabelAsignmentByDate call taken one await at a time, beside
\* asignLabelToDay and deleteLabel requests of the same user.
InitHeal == InitCalls({1})

NextHeal ==
    \/ readQuery(ConcInputs)
    \/ readLabelGet
    \/ readDelete
    \/ asignLabelToDay(ConcInputs)
    \/ deleteLabel(ConcInputs)

SpecHeal == InitHeal /\ [][NextHeal]_vars

\* ---------------------------------------------- month range, as a function
\* The month input "YYYY-MM" of year y and month number m.
MonthStr(y, m) == padStart(toString(y), 4) \o <<Dash>> \o padStart(toString(m), 2)

\* Years of the month inputs: every four-digit year without a leading zero,
\* and two years below 1000.
MonthYears == 1000..9999 \cup {50, 999}

\* Month numbers of the month inputs (the pattern \d{2} admits 00 and 13).
MonthNums == 0..13

InitMonth ==
    /\ labels = [u \in Users |-> EmptyColl]
    /\ assignments = [u \in Users |-> EmptyColl]
    /\ nextLabel = 1
    /\ nextAssign = 1
    /\ last = Response("init", "none", NoUser, NoDate, 0, "OK", FALSE, 0, "", 0, 0, <<>>)
    /\ \E y \in MonthYears, m \in MonthNums :
           mq = [phase |-> "input", year |-> y, monthNum |-> m, month |-> MonthStr(y, m),
                 labelRange |-> NoRange, fitnessRange |-> NoRange]
    /\ logs = [u \in Users |-> EmptyColl]
    /\ nextLog = 1
    /\ calls = NoCalls
    /\ job = NoJob

\* getAllLabelsFromMonth computes its range from the input.
labelMonthQuery ==
    /\ mq.phase = "input"
    /\ mq.labelRange = NoRange
    /\ mq' = [mq EXCEPT !.labelRange = labelMonthRange(mq.month)]
    /\ UNCHANGED <<labels, assignments, nextLabel, nextAssign, last, logs, nextLog, calls, job>>

\* getExerciseLogsByMonth computes its range from the input.
fitnessMonthQuery ==
    /\ mq.phase = "input"
    /\ mq.fitnessRange = NoRange
    /\ mq' = [mq EXCEPT !.fitnessRange = fitnessMonthRange(mq.month)]
    /\ UNCHANGED <<labels, assignments, nextLabel, nextAssign, last, logs, nextLog, calls, job>>

NextMonth ==
    \/ labelMonthQuery
    \/ fitnessMonthQuery

SpecMonth == InitMonth /\ [][NextMonth]_vars

\* Every procedure of the label and fitness routers, for one user, over two
\* labels and one date.
FrameInputs == [headers |-> {"tok-u1"}, dates |-> {D1}, months |-> {SubSeq(D1, 1, 7)},
                labelTexts |-> LabelTextInputs, descriptions |-> {"d"}, datesInputs |-> DatesInputs,
                activities |-> {"run"}, maxLabelId |-> MaxLabelId, maxAssignId |-> MaxAssignId]

NextFrame ==
    \/ addLabel(FrameInputs)
    \/ getLabelById(FrameInputs)
    \/ getAllLabels(FrameInputs)
    \/ editLabel(FrameInputs)
    \/ deleteLabel(FrameInputs)
    \/ asignLabelToDay(FrameInputs)
    \/ getLabelAsignmentByDate(FrameInputs)
    \/ deleteAssignment(FrameInputs)
    \/ getAllLabelsFromMonth(FrameInputs)
    \/ addExerciseLog(FrameInputs)
    \/ getExerciseLogByDate(FrameInputs)
    \/ getExerciseLogsByMonth(FrameInputs)
    \/ getExerciseLogById(FrameInputs)
    \/ deleteExerciseLog(FrameInputs)
    \/ editExerciseLog(FrameInputs)

SpecFrame == Init /\ [][NextFrame]_vars

\* ---------------------------------------------- emoji variant procedures
addEmoji(in) ==
    \E header \in in.headers :
        LET user == createContext(header)
        IN  IF ~enforceUserIsAuthed(user) THEN Reject(header)
            ELSE \E emoji \in in.labelTexts, description \in in.descriptions, dates \in in.datesInputs :
                     /\ nextLabel <= in.maxLabelId
                     /\ Commit("addEmoji", header, user, NoDate, 0,
                               addEmojiHandler(labels[user], assignments[user], nextLabel,
                                               nextAssign, emoji, description, dates))

deleteEmoji(in) ==
    \E header \in in.headers :
        LET user == createContext(header)
        IN  IF ~enforceUserIsAuthed(user) THEN Reject(header)
            ELSE \E id \in LabelIdInputs :
                     Commit("deleteEmoji", header, user, NoDate, id,
                            deleteEmojiHandler(labels[user], assignments[user], nextLabel,
                                               nextAssign, id))

asignEmojiToDay(in) ==
    \E header \in in.headers :
        LET user == createContext(header)
        IN  IF ~enforceUserIsAuthed(user) THEN Reject(header)
            ELSE \E date \in in.dates, emojiId \in LabelIdInputs :
                     \E snap \in whereDateLimit1(assignments[user], date) :
                         /\ snap = {} => nextAssign <= in.maxAssignId
                         /\ Commit("asignEmojiToDay", header, user, date, emojiId,
                                   asignEmojiToDayHandler(labels[user], assignments[user], nextLabel,
                                                          nextAssign, date, emojiId, snap))

getEmojiAsignmentByDate(in) ==
    \E header \in in.headers :
        LET user == createContext(header)
        IN  IF ~enforceUserIsAuthed(user) THEN Reject(header)
            ELSE \E date \in in.dates :
                     \E snap \in whereDateLimit1(assignments[user], date) :
                         Commit("getEmojiAsignmentByDate", header, user, date, 0,
                                getEmojiAsignmentByDateHandler(labels[user], assignments[user], nextLabel,
                                                               nextAssign, date, snap))

getAllEmojisFromMonth(in) ==
    \E header \in in.headers :
        LET user == createContext(header)
        IN  IF ~enforceUserIsAuthed(user) THEN Reject(header)
            ELSE \E date \in in.months :
                     Commit("getAllEmojisFromMonth", header, user, date, 0,
                            getAllEmojisFromMonthHandler(labels[user], assignments[user], nextLabel,
                                                         nextAssign, date))

\* Both versions of the router over one store, for one user: every behaviour
\* of either version alone is a behaviour of this specification.
NextVariants ==
    \/ addEmoji(MonthlyInputs)
    \/ deleteEmoji(MonthlyInputs)
    \/ asignEmojiToDay(MonthlyInputs)
    \/ getEmojiAsignmentByDate(MonthlyInputs)
    \/ getAllEmojisFromMonth(MonthlyInputs)
    \/ deleteLabel(MonthlyInputs)
    \/ getLabelAsignmentByDate(MonthlyInputs)

SpecVariants == Init /\ [][NextVariants]_vars

\* ------------------------------------------------------ migration of sets
\* A value of a stored set: null, a number or a string.
NullValue == [kind |-> "null", n |-> 0, s |-> <<>>]
NumberValue(n) == [kind |-> "number", n |-> n, s |-> <<>>]
StringValue(s) == [kind |-> "string", n |-> 0, s |-> s]

\* The callback of sets.map in migrateExerciseLogs: measure is read from the
\* set's setType, and falls back to 'kg' when no case of the switch matches.
migrateSet(set) ==
    LET measure == CASE set.setType \in {"kg", "lbs"} -> set.setType
                     [] set.setType = "time" -> "sec"
                     [] set.setType = "distance" -> "distance"
                     [] set.setType = "steps" -> "step"
                     [] OTHER -> "kg"
    IN  [setType |-> "normal",
         measure |-> measure,
         value |-> IF set.value.kind = "null" THEN NullValue
                   ELSE IF set.value.kind = "number" THEN StringValue(toString(set.value.n))
                   ELSE set.value,
         reps |-> StringValue(<<Zero + 8, Dash, Zero + 9>>)]

\* (logData.sets ?? []).map(...)
updatedSets(sets) == [i \in 1..Len(sets) |-> migrateSet(sets[i])]

\* The sets of a log after one run of the migration: a log whose mapped sets
\* are empty is not written, and set(..., {merge: true}) replaces the array.
migratedLogSets(sets) == IF Len(updatedSets(sets)) > 0 THEN updatedSets(sets) ELSE sets

\* Sets as the legacy schema stores them: the unit is in setType, and there
\* is no measure field.
LegacySets ==
    {[setType |-> t, measure |-> "absent", value |-> v, reps |-> NullValue] :
        t \in {"kg", "lbs", "time", "distance", "steps", "null"},
        v \in {NullValue, NumberValue(50), StringValue(toString(50))}}

RECURSIVE SeqsUpTo(_, _)
SeqsUpTo(S, n) ==
    IF n = 0 THEN {<<>>}
    ELSE LET shorter == SeqsUpTo(S, n - 1)
         IN  shorter \cup {Append(q, x) : q \in {r \in shorter : Len(r) = n - 1}, x \in S}

\* One log with legacy sets, before the first run of the script.
InitMigrate ==
    /\ labels = [u \in Users |-> EmptyColl]
    /\ assignments = [u \in Users |-> EmptyColl]
    /\ nextLabel = 1
    /\ nextAssign = 1
    /\ last = Response("init", "none", NoUser, NoDate, 0, "OK", FALSE, 0, "", 0, 0, <<>>)
    /\ mq = MqIdle
    /\ logs = [u \in Users |-> EmptyColl]
    /\ nextLog = 1
    /\ calls = NoCalls
    /\ \E sets \in SeqsUpTo(LegacySets, MaxSets) :
           job = [script |-> "migrateSets", pc |-> "done", runs |-> 0, sets |-> sets]

\* One run of migrateExerciseLogs over the log.
migrateLogSets ==
    /\ job.script = "migrateSets"
    /\ job.runs < MaxRuns
    /\ job' = [job EXCEPT !.runs = @ + 1, !.sets = migratedLogSets(@)]
    /\ UNCHANGED <<labels, assignments, nextLabel, nextAssign, last, mq, logs, nextLog, calls>>

SpecMigrate == InitMigrate /\ [][migrateLogSets]_vars

\* ------------------------------------------------------------ bulk scripts
\* The scripts see the fitnessLogs collection group as documents 1..n in
\* document-id order. job holds the locals of the running script, and per
\* document the number of committed writes (commits) and of loop iterations
\* over it (scans).

\* if (writesInBatch >= 450) of migrateExerciseLogs.
MigrateBatchLimit == 450

\* if (writesInBatch >= 450) of deleteTodaysLogs.
DeleteBatchLimit == 450

\* const pageSize = 500.
pageSize == 500

\* Which documents the script writes: all, none, or every other one.
matches(pattern, doc) ==
    CASE pattern = "all" -> TRUE
      [] pattern = "none" -> FALSE
      [] OTHER -> doc % 2 = 1

\* updatedSets.length > 0 for the document.
hasSets(m, doc) == matches(m.pattern, doc)

\* logDate === today for the document.
datedToday(m, doc) == matches(m.pattern, doc)

\* Collection sizes around the batch limit and the page size.
ScriptSizes == {0, 1, DeleteBatchLimit, DeleteBatchLimit + 1, pageSize, pageSize + 1, MaxDocs}

\* The documents of ids within lo..hi, in ascending id order.
RECURSIVE orderBy(_, _, _)
orderBy(ids, lo, hi) ==
    IF lo > hi THEN <<>>
    ELSE IF lo = hi THEN (IF lo \in ids THEN <<lo>> ELSE <<>>)
    ELSE LET mid == (lo + hi) \div 2
         IN  orderBy(ids, lo, mid) \o orderBy(ids, mid + 1, hi)

\* A page query that starts at the cursor document instead of after it.
startAt(ids, lastDoc) == {doc \in ids : doc >= lastDoc}

\* query.startAfter(lastDoc); lastDoc = 0 is the null cursor.
startAfter(ids, lastDoc) == {doc \in ids : doc > lastDoc}

\* Batches that never count as full.
batchNeverFull(writesInBatch) == FALSE

\* writesInBatch >= 450 in migrateExerciseLogs.
migrateBatchFull(writesInBatch) == writesInBatch >= MigrateBatchLimit

\* A script that goes on with the batch it has just committed.
sameBatch(batch) == batch

\* batch = db.batch() after a commit.
newBatch(batch) == <<>>

\* The store after batch.commit(): one more committed write per operation.
commit(commits, batch) ==
    [doc \in DOMAIN commits |-> commits[doc] + Cardinality({k \in DOMAIN batch : batch[k] = doc})]

\* The script's locals when it starts, over n documents.
ScriptStart(script, n, pattern) ==
    [script |-> script, pc |-> IF script = "migrate" THEN "get" ELSE "page",
     n |-> n, pattern |-> pattern, docs |-> <<>>, i |-> 1, batch |-> <<>>, writesInBatch |-> 0,
     totalScanned |-> 0, totalDocsQueued |-> 0, totalDeleted |-> 0, lastDoc |-> 0,
     inFlight |-> 0, emptyPages |-> 0, commits |-> [doc \in 1..n |-> 0], scans |-> [doc \in 1..n |-> 0]]

InitScripts ==
    /\ labels = [u \in Users |-> EmptyColl]
    /\ assignments = [u \in Users |-> EmptyColl]
    /\ nextLabel = 1
    /\ nextAssign = 1
    /\ last = Response("init", "none", NoUser, NoDate, 0, "OK", FALSE, 0, "", 0, 0, <<>>)
    /\ mq = MqIdle
    /\ logs = [u \in Users |-> EmptyColl]
    /\ nextLog = 1
    /\ calls = NoCalls
    /\ \E script \in {"migrate", "delete"}, n \in ScriptSizes,
          pattern \in {"all", "none", "alternate"} :
           job = ScriptStart(script, n, pattern)

ScriptStep(m) ==
    /\ job' = m
    /\ UNCHANGED <<labels, assignments, nextLabel, nextAssign, last, mq, logs, nextLog, calls>>

\* migrateExerciseLogs: await db.collectionGroup('fitnessLogs').get()
migrateGet ==
    /\ job.script = "migrate"
    /\ job.pc = "get"
    /\ ScriptStep([job EXCEPT !.pc = "loop", !.docs = orderBy(1..job.n, 1, job.n), !.i = 1])

\* One iteration of the for loop of migrateExerciseLogs, up to its await.
migrateLoop ==
    /\ job.script = "migrate"
    /\ job.pc = "loop"
    /\ job.i <= Len(job.docs)
    /\ LET logDoc == job.docs[job.i]
           m == [job EXCEPT !.i = @ + 1, !.totalScanned = @ + 1, !.scans[logDoc] = @ + 1]
       IN  IF hasSets(job, logDoc)
           THEN LET q == [m EXCEPT !.batch = Append(@, logDoc), !.writesInBatch = @ + 1,
                                   !.totalDocsQueued = @ + 1]
                IN  IF migrateBatchFull(q.writesInBatch)
                    THEN ScriptStep([q EXCEPT !.pc = "commit", !.inFlight = @ + 1])
                    ELSE ScriptStep(q)
           ELSE ScriptStep(m)

\* The commit awaited inside the loop completes.
migrateCommit ==
    /\ job.script = "migrate"
    /\ job.pc = "commit"
    /\ ScriptStep([job EXCEPT !.pc = "loop", !.inFlight = @ - 1,
                              !.commits = commit(@, job.batch),
                              !.batch = newBatch(@), !.writesInBatch = 0])

\* The loop is over: the final batch is committed if it holds a write.
migrateLoopEnd ==
    /\ job.script = "migrate"
    /\ job.pc = "loop"
    /\ job.i > Len(job.docs)
    /\ IF job.writesInBatch > 0
       THEN ScriptStep([job EXCEPT !.pc = "finalCommit", !.inFlight = @ + 1])
       ELSE ScriptStep([job EXCEPT !.pc = "done"])

\* The final commit completes and the script ends.
migrateFinalCommit ==
    /\ job.script = "migrate"
    /\ job.pc = "finalCommit"
    /\ ScriptStep([job EXCEPT !.pc = "done", !.inFlight = @ - 1,
                              !.commits = commit(@, job.batch)])

\* deleteTodaysLogs: the page query; an empty page ends the while loop.
deletePage ==
    /\ job.script = "delete"
    /\ job.pc = "page"
    /\ job.totalScanned <= MaxDocs
    /\ LET stored == {doc \in 1..job.n : job.commits[doc] = 0}
           query == IF job.lastDoc # 0 THEN startAfter(stored, job.lastDoc) ELSE stored
           ordered == orderBy(query, 1, job.n)
           snapshot == IF Len(ordered) <= pageSize THEN ordered ELSE SubSeq(ordered, 1, pageSize)
       IN  IF Len(snapshot) = 0
           THEN ScriptStep([job EXCEPT !.pc = "done", !.emptyPages = @ + 1])
           ELSE ScriptStep([job EXCEPT !.pc = "loop", !.docs = snapshot, !.i = 1,
                                       !.totalScanned = @ + Len(snapshot),
                                       !.batch = <<>>, !.writesInBatch = 0])

\* One iteration of the for loop over the page, up to its await.
deleteLoop ==
    /\ job.script = "delete"
    /\ job.pc = "loop"
    /\ job.i <= Len(job.docs)
    /\ LET doc == job.docs[job.i]
           m == [job EXCEPT !.i = @ + 1, !.lastDoc = doc, !.scans[doc] = @ + 1]
       IN  IF datedToday(job, doc)
           THEN LET q == [m EXCEPT !.batch = Append(@, doc), !.writesInBatch = @ + 1]
                IN  IF q.writesInBatch >= DeleteBatchLimit
                    THEN ScriptStep([q EXCEPT !.pc = "commit", !.inFlight = @ + 1])
                    ELSE ScriptStep(q)
           ELSE ScriptStep(m)

\* The commit awaited inside the loop completes.
deleteCommit ==
    /\ job.script = "delete"
    /\ job.pc = "commit"
    /\ ScriptStep([job EXCEPT !.pc = "loop", !.inFlight = @ - 1,
                              !.commits = commit(@, job.batch),
                              !.totalDeleted = @ + job.writesInBatch,
                              !.batch = newBatch(@), !.writesInBatch = 0])

\* The page is done: its last batch is committed if it holds a write.
deletePageEnd ==
    /\ job.script = "delete"
    /\ job.pc = "loop"
    /\ job.i > Len(job.docs)
    /\ IF job.writesInBatch > 0
       THEN ScriptStep([job EXCEPT !.pc = "finalCommit", !.inFlight = @ + 1])
       ELSE ScriptStep([job EXCEPT !.pc = "page"])

\* The page's last commit completes; the while loop goes round.
deleteFinalCommit ==
    /\ job.script = "delete"
    /\ job.pc = "finalCommit"
    /\ ScriptStep([job EXCEPT !.pc = "page", !.inFlight = @ - 1,
                              !.commits = commit(@, job.batch),
                              !.totalDeleted = @ + job.writesInBatch])

NextScripts ==
    \/ migrateGet
    \/ migrateLoop
    \/ migrateCommit
    \/ migrateLoopEnd
    \/ migrateFinalCommit
    \/ deletePage
    \/ deleteLoop
    \/ deleteCommit
    \/ deletePageEnd
    \/ deleteFinalCommit

SpecScripts == InitScripts /\ [][NextScripts]_vars

NextPaging ==
    \/ deletePage
    \/ deleteLoop
    \/ deleteCommit
    \/ deletePageEnd
    \/ deleteFinalCommit

\* deleteTodaysLogs alone.
InitPaging == InitScripts /\ job.script = "delete"

\* The script is the only process, and the store answers every request: the
\* step the script is waiting for is taken.
SpecPaging == InitPaging /\ [][NextPaging]_vars /\ WF_vars(NextPaging)

\* ------------------------------------------------------------------ claims
ValidHeaders == {"tok-u1", "tok-u2"}

\* C1: with handlers run one at a time, no user ever has two Day Assignment
\* documents for the same date.
AtMostOneAssignmentPerDate ==
    \A u \in Users, d \in DateInputs : Cardinality(docsByDate(assignments[u], d)) <= 1

\* C1 witness: asignLabelToDay found the date's assignment and updated it.
ReassignedSingleRecord ==
    /\ last.op = "asignLabelToDay"
    /\ last.message = "Label assignment updated successfully!"
    /\ Cardinality(docsByDate(assignments[last.user], last.date)) = 1

\* C2 (as claimed): a date is in a label's dates list exactly when a Day
\* Assignment for that date points to the label.
DateListConsistency ==
    \A u \in Users : \A id \in DOMAIN labels[u] : \A d \in DateInputs :
        includes(labels[u][id].dates, d)
            <=> (\E a \in docsByDate(assignments[u], d) : assignments[u][a].labelId = id)

\* C3: asignLabelToDay(d, L2) right after a successful asignLabelToDay(d, L1),
\* L1 # L2 both existing, leaves d in L2.dates, not in L1.dates, and the one
\* assignment for d pointing to L2.
ReassignMovesDate ==
    [][(/\ last.op = "asignLabelToDay"
        /\ last.code = "OK"
        /\ last'.op = "asignLabelToDay"
        /\ last'.user = last.user
        /\ last'.date = last.date
        /\ last'.labelId # last.labelId
        /\ last'.labelId \in DOMAIN labels[last.user])
       => (/\ includes(labels'[last.user][last'.labelId].dates, last.date)
           /\ ~includes(labels'[last.user][last.labelId].dates, last.date)
           /\ \E a \in DOMAIN assignments'[last.user] :
                  /\ docsByDate(assignments'[last.user], last.date) = {a}
                  /\ assignments'[last.user][a].labelId = last'.labelId)]_vars

\* C3 witness: a reassignment wrote the assignment, added the date to the new
\* label and removed it from the previous one.
ReassignedToOtherLabel ==
    /\ last.op = "asignLabelToDay"
    /\ last.code = "OK"
    /\ last.writes = 3
    /\ includes(labels[last.user][last.labelId].dates, last.date)

\* C4 (as claimed): asignLabelToDay(d, L) right after a successful
\* asignLabelToDay(d, L) leaves d exactly once in L.dates, one assignment for
\* d, and labels and assignments as they were.
AssignTwiceKeepsOneEntry ==
    [][(/\ last.op = "asignLabelToDay"
        /\ last.code = "OK"
        /\ last'.op = "asignLabelToDay"
        /\ last'.user = last.user
        /\ last'.date = last.date
        /\ last'.labelId = last.labelId)
       => (/\ count(labels'[last.user][last.labelId].dates, last.date) = 1
           /\ Cardinality(docsByDate(assignments'[last.user], last.date)) = 1
           /\ UNCHANGED <<labels, assignments>>)]_vars

\* C5: getLabelAsignmentByDate(d), called while an assignment for d points to
\* a label that no longer exists, returns null and leaves no assignment for d.
OrphanSelfHeal ==
    [][(/\ last'.op = "getLabelAsignmentByDate"
        /\ \E a \in docsByDate(assignments[last'.user], last'.date) :
               assignments[last'.user][a].labelId \notin DOMAIN labels[last'.user])
       => (/\ last'.code = "OK"
           /\ last'.isNull
           /\ docsByDate(assignments'[last'.user], last'.date) = {})]_vars

\* C5 witness: the read deleted an orphaned assignment and returned null.
OrphanHealed ==
    /\ last.op = "getLabelAsignmentByDate"
    /\ last.isNull
    /\ last.writes = 1
    /\ docsByDate(assignments[last.user], last.date) = {}

\* The Gregorian last day of month m of year y.
GregorianLastDay(y, m) ==
    IF m = 2 THEN (IF (y % 4 = 0 /\ y % 100 # 0) \/ y % 400 = 0 THEN 29 ELSE 28)
    ELSE IF m \in {4, 6, 9, 11} THEN 30 ELSE 31

\* C6: for a month input with year 1000..9999 and month 01..12, each month
\* query's range runs from YYYY-MM-01 to YYYY-MM-LL, LL the Gregorian last day.
MonthRangeCorrect ==
    (mq.phase = "input" /\ mq.year \in 1000..9999 /\ mq.monthNum \in 1..12)
        => LET expected == [start |-> IsoDate(mq.year, mq.monthNum, 1),
                            end |-> IsoDate(mq.year, mq.monthNum, GregorianLastDay(mq.year, mq.monthNum))]
           IN  /\ mq.labelRange # NoRange => mq.labelRange = expected
               /\ mq.fitnessRange # NoRange => mq.fitnessRange = expected

\* C6 witness: both queries computed the range of the leap February 2024-02.
LeapFebruaryRange ==
    /\ mq.phase = "input"
    /\ mq.year = 2024
    /\ mq.monthNum = 2
    /\ mq.labelRange.end = IsoDate(2024, 2, 29)
    /\ mq.fitnessRange.end = IsoDate(2024, 2, 29)

\* C7: asignLabelToDay with a labelId that is not a label of the caller fails
\* with NOT_FOUND, writes nothing, and leaves labels and assignments as they were.
AssignMissingLabelNoWrite ==
    [][(/\ last'.op = "asignLabelToDay"
        /\ last'.labelId \notin DOMAIN labels[last'.user])
       => (/\ last'.code = "NOT_FOUND"
           /\ last'.writes = 0
           /\ UNCHANGED <<labels, assignments>>)]_vars

\* C7 witness: the call was refused for a date that has an assignment.
AssignRefusedOnAssignedDate ==
    /\ last.op = "asignLabelToDay"
    /\ last.code = "NOT_FOUND"
    /\ last.labelId \notin DOMAIN labels[last.user]
    /\ docsByDate(assignments[last.user], last.date) # {}

\* C8: deleteAssignment(date) of a caller with no assignment for that date
\* fails with NOT_FOUND and leaves the store as it was.
DeleteMissingAssignmentNoWrite ==
    [][(/\ last'.op = "deleteAssignment"
        /\ docsByDate(assignments[last'.user], last'.date) = {})
       => (/\ last'.code = "NOT_FOUND"
           /\ last'.writes = 0
           /\ UNCHANGED <<labels, assignments>>)]_vars

\* C8 witness: the call was refused while the caller has another assignment.
DeleteRefused ==
    /\ last.op = "deleteAssignment"
    /\ last.code = "NOT_FOUND"
    /\ docsByDate(assignments[last.user], last.date) = {}
    /\ assignments[last.user] # EmptyColl

\* C9: a successful deleteAssignment(date) leaves the caller no assignment for
\* that date; a getLabelAsignmentByDate(date) right after it returns null and
\* a deleteAssignment(date) right after it fails with NOT_FOUND.
DeleteRemovesAssignment ==
    [][/\ (last'.op = "deleteAssignment" /\ last'.code = "OK")
            => docsByDate(assignments'[last'.user], last'.date) = {}
       /\ (/\ last.op = "deleteAssignment"
           /\ last.code = "OK"
           /\ last'.user = last.user
           /\ last'.date = last.date)
            => (/\ last'.op = "getLabelAsignmentByDate" => (last'.code = "OK" /\ last'.isNull)
                /\ last'.op = "deleteAssignment" => last'.code = "NOT_FOUND")]_vars

\* C9 witness: deleteAssignment deleted the date's assignment.
AssignmentDeleted ==
    /\ last.op = "deleteAssignment"
    /\ last.code = "OK"
    /\ last.writes = 1
    /\ last.id \notin DOMAIN assignments[last.user]

\* C10: a request without a bearer token, or with one that fails
\* verification, has a null user and is rejected with UNAUTHORIZED without a
\* store read or write.
UnauthenticatedRejected ==
    [][(last'.header \notin ValidHeaders)
       => (/\ last'.user = NoUser
           /\ last'.code = "UNAUTHORIZED"
           /\ last'.reads = 0
           /\ last'.writes = 0
           /\ UNCHANGED <<labels, assignments, nextLabel, nextAssign>>)]_vars

\* C10 witness: a request with a rejected token was refused while the store
\* holds a label and an assignment.
BadTokenRejected ==
    /\ last.header = "bad"
    /\ last.code = "UNAUTHORIZED"
    /\ \E u \in Users : labels[u] # EmptyColl /\ assignments[u] # EmptyColl

\* C12 (as claimed): an asignLabelToDay(d, L) that finds an assignment for d
\* keeps that document's id and date, changes only its labelId to L, returns
\* that id, and leaves the set of assignment documents the same.
ReassignInPlace ==
    [][(/\ last'.op = "asignLabelToDay"
        /\ last'.labelId \in DOMAIN labels[last'.user]
        /\ docsByDate(assignments[last'.user], last'.date) # {})
       => \E a \in docsByDate(assignments[last'.user], last'.date) :
              /\ assignments'[last'.user] = [assignments[last'.user] EXCEPT ![a].labelId = last'.labelId]
              /\ nextAssign' = nextAssign
              /\ last'.id = a]_vars

\* C18: deleteAssignment(date) leaves every label as it was, and when it
\* succeeds it deletes the assignment document of that date and nothing else;
\* a label that listed the date still lists it.
DeleteAssignmentKeepsDates ==
    [][(last'.op = "deleteAssignment")
       => (/\ labels' = labels
           /\ last'.code = "OK"
                => (/\ last'.id \in docsByDate(assignments[last'.user], last'.date)
                    /\ assignments'[last'.user] = docDelete(assignments[last'.user], last'.id)
                    /\ LET labelId == assignments[last'.user][last'.id].labelId
                       IN  (/\ labelId \in DOMAIN labels[last'.user]
                            /\ includes(labels[last'.user][labelId].dates, last'.date))
                           => includes(labels'[last'.user][labelId].dates, last'.date)))]_vars

\* C18 witness: deleteAssignment deleted the date's assignment and a label of
\* the caller, assigned to that date by asignLabelToDay, still lists the date.
DateListedAfterDelete ==
    /\ last.op = "deleteAssignment"
    /\ last.code = "OK"
    /\ docsByDate(assignments[last.user], last.date) = {}
    /\ \E id \in DOMAIN labels[last.user] : labels[last.user][id].dates = <<last.date>>

\* The assignment documents of A whose date "YYYY-MM-DD" is in month "YYYY-MM".
assignmentsOfMonth(A, month) ==
    {a \in DOMAIN A : Len(A[a].date) = 10 /\ SubSeq(A[a].date, 1, 8) = month \o <<Dash>>}

\* C19 (as claimed): getAllLabelsFromMonth leaves no assignment of the queried
\* month whose label is missing: each is deleted and its date is not in the
\* result, also when several dates point to the same missing label.
MonthQueryDeletesEveryOrphan ==
    [][(last'.op = "getAllLabelsFromMonth")
       => \A a \in assignmentsOfMonth(assignments[last'.user], last'.date) :
              (assignments[last'.user][a].labelId \notin DOMAIN labels[last'.user])
                  => (/\ a \notin DOMAIN assignments'[last'.user]
                      /\ \A i \in 1..Len(last'.pairs) :
                             last'.pairs[i].date # assignments[last'.user][a].date)]_vars

\* C20: getAllLabelsFromMonth returns one {date, label} pair for each
\* assignment of the caller that is in the month and whose label exists, with
\* that label's text, and no other pair; it makes one label read for each
\* distinct labelId among the month's assignments.
MonthPairsExact ==
    [][(last'.op = "getAllLabelsFromMonth")
       => LET A == assignments[last'.user]
              L == labels[last'.user]
              inMonth == assignmentsOfMonth(A, last'.date)
              valid == {a \in inMonth : A[a].labelId \in DOMAIN L}
              pairOf(a) == [date |-> A[a].date, label |-> L[A[a].labelId].label]
              pairs == last'.pairs
          IN  /\ Len(pairs) = Cardinality(valid)
              /\ \A a \in valid :
                     Cardinality({i \in 1..Len(pairs) : pairs[i] = pairOf(a)})
                         = Cardinality({b \in valid : pairOf(b) = pairOf(a)})
              /\ last'.reads = 1 + Cardinality({A[a].labelId : a \in inMonth})]_vars

\* C20 witness: the query returned two dates of one label after one label read.
TwoDatesOneLookup ==
    /\ last.op = "getAllLabelsFromMonth"
    /\ Len(last.pairs) = 2
    /\ last.pairs[1].date # last.pairs[2].date
    /\ last.pairs[1].label = last.pairs[2].label
    /\ last.reads = 2

\* The procedures that take a label document id, and those that take an
\* exercise log document id.
LabelByIdOps == {"getLabelById", "editLabel", "deleteLabel"}

LogByIdOps == {"getExerciseLogById", "editExerciseLog", "deleteExerciseLog"}

AssignmentOps == {"asignLabelToDay", "getLabelAsignmentByDate", "deleteAssignment"}

\* C11: a request of user U leaves the labels, assignments and exercise logs
\* of every other user as they were, and every document the response names
\* or carries is one of U's own collections.
OtherUsersUntouched ==
    [][/\ \A v \in Users \ {last'.user} :
              /\ labels'[v] = labels[v]
              /\ assignments'[v] = assignments[v]
              /\ logs'[v] = logs[v]
       /\ (last'.user \in Users /\ last'.code = "OK")
            => (/\ (last'.op \in LabelByIdOps)
                     => (last'.id \in DOMAIN labels[last'.user])
                /\ (last'.op \in {"getLabelById", "editLabel"})
                     => (last'.pairs = <<labels'[last'.user][last'.id]>>)
                /\ (last'.op = "getAllLabels")
                     => ({last'.pairs[i] : i \in 1..Len(last'.pairs)}
                            = {labels[last'.user][k] : k \in DOMAIN labels[last'.user]})
                /\ (last'.op \in AssignmentOps /\ last'.id # 0)
                     => (last'.id \in DOMAIN assignments[last'.user] \cup DOMAIN assignments'[last'.user])
                /\ (last'.op \in LogByIdOps)
                     => (last'.id \in DOMAIN logs[last'.user])
                /\ (last'.op \in {"getExerciseLogById", "getExerciseLogByDate"})
                     => (\A i \in 1..Len(last'.pairs) :
                            /\ last'.pairs[i].id \in DOMAIN logs[last'.user]
                            /\ logs[last'.user][last'.pairs[i].id].date = last'.pairs[i].date
                            /\ logs[last'.user][last'.pairs[i].id].activity = last'.pairs[i].activity))]_vars

\* C11 witness: a user's request wrote a document while another user holds
\* a label and an exercise log.
WroteBesideOtherUser ==
    /\ last.user \in Users
    /\ last.code = "OK"
    /\ last.writes > 0
    /\ \E v \in Users \ {last.user} : labels[v] # EmptyColl /\ logs[v] # EmptyColl

\* C13: a successful editLabel changes nothing but the label and description
\* of the label it names: that label's dates list, every other label and
\* every assignment are as before, and it returns the label as stored.
EditLabelPatchesTextOnly ==
    [][(last'.op = "editLabel" /\ last'.code = "OK")
       => (/\ last'.labelId \in DOMAIN labels[last'.user]
           /\ \E label \in LabelTextInputs, description \in CrudInputs.descriptions :
                  labels' = [labels EXCEPT ![last'.user][last'.labelId].label = label,
                                           ![last'.user][last'.labelId].description = description]
           /\ labels'[last'.user][last'.labelId].dates = labels[last'.user][last'.labelId].dates
           /\ assignments' = assignments
           /\ last'.pairs = <<labels'[last'.user][last'.labelId]>>)]_vars

\* C13 witness: editLabel rewrote the text of a label that lists a date and
\* has an assignment pointing to it.
EditedAssignedLabel ==
    /\ last.op = "editLabel"
    /\ last.code = "OK"
    /\ labels[last.user][last.labelId].label = "B"
    /\ labels[last.user][last.labelId].description = "e"
    /\ labels[last.user][last.labelId].dates = <<D1>>
    /\ \E a \in DOMAIN assignments[last.user] : assignments[last.user][a].labelId = last.labelId

\* C14: getLabelById, editLabel and deleteLabel with an id that is no label
\* of the caller, and getExerciseLogById, editExerciseLog and
\* deleteExerciseLog with an id that is no exercise log of the caller, fail
\* with NOT_FOUND and leave the store as it was.
MissingIdNotFound ==
    [][(\/ (last'.op \in LabelByIdOps /\ last'.labelId \notin DOMAIN labels[last'.user])
        \/ (last'.op \in LogByIdOps /\ last'.labelId \notin DOMAIN logs[last'.user]))
       => (/\ last'.code = "NOT_FOUND"
           /\ last'.writes = 0
           /\ UNCHANGED <<labels, assignments, logs, nextLabel, nextAssign, nextLog>>)]_vars

\* C14 witness: an edit was refused for an id that is a document of another
\* user, while the caller has documents of their own.
ForeignIdRefused ==
    /\ last.op \in {"editLabel", "editExerciseLog"}
    /\ last.code = "NOT_FOUND"
    /\ \E v \in Users \ {last.user} : last.labelId \in (DOMAIN labels[v]) \cup (DOMAIN logs[v])
    /\ (DOMAIN labels[last.user]) \cup (DOMAIN logs[last.user]) # {}

\* C15: a second assignment document for a date comes only from the set() of
\* a call that overlapped another call and whose query, made before the
\* other document existed, was empty. (That two such calls both create is
\* the witness.)
DuplicateOnlyFromEmptyQuery ==
    [][\A u \in Users, d \in DateInputs :
          (/\ docsByDate(assignments[u], d) # {}
           /\ Cardinality(docsByDate(assignments'[u], d)) > Cardinality(docsByDate(assignments[u], d)))
          => \E s \in DOMAIN calls :
                 /\ calls[s].pc = "upsert"
                 /\ calls[s].user = u
                 /\ calls[s].date = d
                 /\ ~calls[s].isUpdate
                 /\ calls[s].raced
                 /\ docsByDate(assignments'[u], d) = docsByDate(assignments[u], d) \cup {calls'[s].assignmentId}]_vars

\* C15 witness: two calls for the same user and date ran at once, both
\* created a document and returned, and the date has two documents.
TwoRecordsOneDate ==
    \E s, t \in DOMAIN calls :
        /\ s # t
        /\ calls[s].pc = "done" /\ calls[t].pc = "done"
        /\ calls[s].code = "OK" /\ calls[t].code = "OK"
        /\ calls[s].raced /\ calls[t].raced
        /\ ~calls[s].isUpdate /\ ~calls[t].isUpdate
        /\ calls[s].user = calls[t].user /\ calls[s].date = calls[t].date
        /\ docsByDate(assignments[calls[s].user], calls[s].date) = {calls[s].assignmentId, calls[t].assignmentId}
        /\ calls[s].assignmentId # calls[t].assignmentId

\* C16: a call that returns success without having overlapped another call
\* leaves its assignment pointing to its label and that label listing the
\* date; only calls that raced can return success and leave the assignment
\* pointing to a label that does not list the date. (That they can is the
\* witness.)
LostUpdateOnlyInRace ==
    [][\A s \in DOMAIN calls :
          (/\ InFlight(calls[s])
           /\ calls'[s].pc = "done"
           /\ calls'[s].code = "OK"
           /\ ~calls'[s].raced)
          => LET c == calls'[s]
             IN  /\ c.assignmentId \in DOMAIN assignments'[c.user]
                 /\ assignments'[c.user][c.assignmentId].labelId = c.labelId
                 /\ includes(labels'[c.user][c.labelId].dates, c.date)]_vars

\* C16 witness: two calls for one date and different labels ran at once and
\* both returned success with every write made; the date's one assignment
\* points to a label whose dates list does not hold the date.
LostDateUpdate ==
    \E s, t \in DOMAIN calls :
        /\ s # t
        /\ calls[s].pc = "done" /\ calls[t].pc = "done"
        /\ calls[s].code = "OK" /\ calls[t].code = "OK"
        /\ calls[s].raced /\ calls[t].raced
        /\ calls[s].user = calls[t].user /\ calls[s].date = calls[t].date
        /\ calls[s].labelId # calls[t].labelId
        /\ LET u == calls[s].user
               found == docsByDate(assignments[u], calls[s].date)
           IN  /\ Cardinality(found) = 1
               /\ \A a \in found :
                      /\ assignments[u][a].labelId \in {calls[s].labelId, calls[t].labelId}
                      /\ ~includes(labels[u][assignments[u][a].labelId].dates, calls[s].date)

\* C17: when a write of asignLabelToDay is rejected after the assignment
\* upsert, the call ends in an error and nothing is undone: the store is as
\* the call's earlier writes left it, the upserted assignment included.
RejectedWriteKeepsEarlierWrites ==
    [][\A s \in DOMAIN calls :
          (/\ calls[s].pc \in {"addDate", "removePrevious"}
           /\ calls'[s].code = "INTERNAL_SERVER_ERROR")
          => LET c == calls[s]
             IN  /\ calls'[s].pc = "done"
                 /\ last'.op = "asignLabelToDay"
                 /\ last'.code = "INTERNAL_SERVER_ERROR"
                 /\ last'.id = 0
                 /\ labels' = labels
                 /\ assignments' = assignments
                 /\ c.assignmentId \in DOMAIN assignments'[c.user]
                 /\ assignments'[c.user][c.assignmentId].labelId = c.labelId]_vars

\* C17 witness: the call failed after its upsert; its assignment points to a
\* label whose dates list does not hold the date.
FailedCallBrokeDateList ==
    \E s \in DOMAIN calls :
        /\ calls[s].pc = "done"
        /\ calls[s].code = "INTERNAL_SERVER_ERROR"
        /\ calls[s].writes >= 1
        /\ calls[s].assignmentId \in DOMAIN assignments[calls[s].user]
        /\ assignments[calls[s].user][calls[s].assignmentId].labelId = calls[s].labelId
        /\ ~includes(labels[calls[s].user][calls[s].labelId].dates, calls[s].date)

\* C23: a successful asignLabelToDay answers with the update message exactly
\* when the date had an assignment when the call looked it up, and with the
\* assignment message exactly when it created a document; the date and
\* labelId it returns are those of the request.
AssignResultTellsUpdateFromCreate ==
    [][(last'.op = "asignLabelToDay" /\ last'.code = "OK")
       => LET before == assignments[last'.user]
              after == assignments'[last'.user]
              created == last'.id \notin DOMAIN before /\ last'.id \in DOMAIN after
          IN  /\ (last'.message = "Label assignment updated successfully!")
                     <=> (docsByDate(before, last'.date) # {})
              /\ (last'.message = "Label assigned to day successfully!") <=> created
              /\ created <=> (docsByDate(before, last'.date) = {})
              /\ last'.pairs = <<[date |-> last'.date, labelId |-> last'.labelId]>>
              /\ after[last'.id] = [date |-> last'.date, labelId |-> last'.labelId]]_vars

\* C23 witness: the call reported an update of an assignment that pointed to
\* another label.
UpdateReported ==
    /\ last.op = "asignLabelToDay"
    /\ last.code = "OK"
    /\ last.message = "Label assignment updated successfully!"
    /\ last.writes = 3
    /\ last.pairs = <<[date |-> last.date, labelId |-> last.labelId]>>

\* C25 (as claimed): asignLabelToDay(d, L) with L existing, on a date whose
\* assignment points to a deleted label, succeeds with the update message,
\* the assignment points to L and L.dates holds d.
ReassignFromDeletedLabelSucceeds ==
    [][(/\ last'.op = "asignLabelToDay"
        /\ last'.labelId \in DOMAIN labels[last'.user]
        /\ \E a \in docsByDate(assignments[last'.user], last'.date) :
               assignments[last'.user][a].labelId \notin DOMAIN labels[last'.user])
       => (/\ last'.code = "OK"
           /\ last'.message = "Label assignment updated successfully!"
           /\ \A a \in docsByDate(assignments'[last'.user], last'.date) :
                  assignments'[last'.user][a].labelId = last'.labelId
           /\ includes(labels'[last'.user][last'.labelId].dates, last'.date))]_vars

\* C30 (as claimed): a second run of the set migration over a log leaves the
\* sets as the first run wrote them.
MigrationIdempotent ==
    [][(job.script = "migrateSets" /\ job.runs >= 1) => job'.sets = job.sets]_vars

\* C21: the read procedures of the emoji variant write nothing.
\* getEmojiAsignmentByDate on an assignment whose emoji was deleted returns
\* the assignment (id, date, emojiId) without emoji data and keeps it;
\* getAllEmojisFromMonth returns a pair for every assignment of the month,
\* with an empty display value where the emoji was deleted.
EmojiReadsNeverWrite ==
    [][(last'.op \in {"getEmojiAsignmentByDate", "getAllEmojisFromMonth"} /\ last'.code = "OK")
       => LET L == labels[last'.user]
              A == assignments[last'.user]
              ofDate == docsByDate(A, last'.date)
              ofMonth == assignmentsOfMonth(A, last'.date)
          IN  /\ UNCHANGED <<labels, assignments, nextLabel, nextAssign>>
              /\ last'.writes = 0
              /\ (last'.op = "getEmojiAsignmentByDate"
                     /\ \E a \in ofDate : A[a].labelId \notin DOMAIN L)
                 => (/\ ~last'.isNull
                     /\ last'.id \in ofDate
                     /\ last'.pairs = <<[date |-> last'.date, emojiId |-> A[last'.id].labelId]>>)
              /\ last'.op = "getAllEmojisFromMonth"
                 => (/\ Len(last'.pairs) = Cardinality(ofMonth)
                     /\ \A a \in ofMonth :
                            \E i \in 1..Len(last'.pairs) :
                                /\ last'.pairs[i].date = A[a].date
                                /\ last'.pairs[i].emoji =
                                       IF A[a].labelId \in DOMAIN L THEN L[A[a].labelId].label ELSE "")]_vars

\* C21 witness: getEmojiAsignmentByDate answered with an assignment whose
\* emoji is gone, and the assignment is still stored.
OrphanReturnedWithoutEmoji ==
    /\ last.op = "getEmojiAsignmentByDate"
    /\ ~last.isNull
    /\ last.id \in DOMAIN assignments[last.user]
    /\ assignments[last.user][last.id].labelId \notin DOMAIN labels[last.user]
    /\ last.pairs = <<[date |-> last.date, emojiId |-> assignments[last.user][last.id].labelId]>>

\* C22: a successful deleteLabel or deleteEmoji removes the label document
\* only; every Day Assignment, also one pointing to the deleted label, is as
\* it was, and a refused deletion changes nothing.
DeleteLabelDoesNotCascade ==
    [][last'.op \in {"deleteLabel", "deleteEmoji"}
       => /\ assignments' = assignments
          /\ UNCHANGED <<nextLabel, nextAssign>>
          /\ IF last'.code = "OK"
             THEN /\ last'.labelId \in DOMAIN labels[last'.user]
                  /\ labels' = [labels EXCEPT ![last'.user] = docDelete(@, last'.labelId)]
             ELSE labels' = labels]_vars

\* C22 witness: deleteEmoji removed an emoji and an assignment still points
\* to it.
DeletedEmojiStillAssigned ==
    /\ last.op = "deleteEmoji"
    /\ last.code = "OK"
    /\ last.labelId \notin DOMAIN labels[last.user]
    /\ \E a \in DOMAIN assignments[last.user] : assignments[last.user][a].labelId = last.labelId

\* C27: a step of any procedure other than asignLabelToDay leaves the dates
\* list of every label that exists before and after it unchanged.
OnlyAssignChangesDates ==
    [][last'.op # "asignLabelToDay"
       => \A u \in Users :
              \A id \in (DOMAIN labels[u]) \cap (DOMAIN labels'[u]) :
                  labels'[u][id].dates = labels[u][id].dates]_vars

\* C27 witness: the self-heal of getLabelAsignmentByDate deleted an
\* assignment of a date that an existing label lists.
SelfHealedBesideListedDate ==
    /\ last.op = "getLabelAsignmentByDate"
    /\ last.writes = 1
    /\ \E id \in DOMAIN labels[last.user] : includes(labels[last.user][id].dates, last.date)

\* C26 (as claimed): when the self-heal of getLabelAsignmentByDate deletes an
\* assignment, the assignment points, at the moment of the delete, to a
\* label that does not exist.
SelfHealDeletesOnlyOrphans ==
    [][\A s \in DOMAIN calls :
          (calls[s].pc = "readDelete" /\ calls'[s].pc = "idle")
          => LET c == calls[s]
                 A == assignments[c.user]
             IN  c.assignmentId \in DOMAIN A
                 => A[c.assignmentId].labelId \notin DOMAIN labels[c.user]]_vars

\* The batch limit of the running script.
BatchLimitOf(m) == IF m.script = "migrate" THEN MigrateBatchLimit ELSE DeleteBatchLimit

\* The documents the running script is to write.
ToWrite(m) == {doc \in 1..m.n : matches(m.pattern, doc)}

\* C24: in both scripts at most one commit is in flight, the batch being
\* committed holds between 1 and 450 operations, and nothing is queued or
\* started while a commit is in flight; a batch never holds more than 450.
BatchesBoundedAndSequential ==
    job.script \in {"migrate", "delete"}
    => /\ job.inFlight \in {0, 1}
       /\ Len(job.batch) <= BatchLimitOf(job)
       /\ Len(job.batch) = job.writesInBatch
       /\ (job.inFlight = 1) <=> (job.pc \in {"commit", "finalCommit"})
       /\ job.inFlight = 1 => Len(job.batch) \in 1..BatchLimitOf(job)

\* C24 witness: deleteTodaysLogs waits for the commit of a full batch in the
\* middle of a page.
FullBatchInFlight ==
    /\ job.script = "delete"
    /\ job.pc = "commit"
    /\ job.inFlight = 1
    /\ Len(job.batch) = DeleteBatchLimit
    /\ job.i <= Len(job.docs)

\* C28: when migrateExerciseLogs ends, every scanned log with sets has one
\* committed write and the others none, and the writes are as many as the
\* documents queued; when deleteTodaysLogs ends, every log dated today has
\* one committed delete and the others none, and totalDeleted is their number.
NoWriteLostOrRepeated ==
    (job.script \in {"migrate", "delete"} /\ job.pc = "done")
    => /\ \A doc \in 1..job.n : job.commits[doc] = IF doc \in ToWrite(job) THEN 1 ELSE 0
       /\ \A doc \in 1..job.n : job.scans[doc] = 1
       /\ job.inFlight = 0
       /\ job.script = "migrate"
          => /\ job.totalScanned = job.n
             /\ job.totalDocsQueued = Cardinality(ToWrite(job))
       /\ job.script = "delete"
          => job.totalDeleted = Cardinality(ToWrite(job))

\* C28 witness: migrateExerciseLogs ended after two full batches and a final
\* one.
MigratedInThreeBatches ==
    /\ job.script = "migrate"
    /\ job.pc = "done"
    /\ job.n = MaxDocs
    /\ job.pattern = "all"
    /\ job.totalDocsQueued = MaxDocs
    /\ Len(job.batch) = MaxDocs - 2 * MigrateBatchLimit

\* C29: deleteTodaysLogs ends; every page holds at most 500 documents, all of
\* them after the cursor, and the cursor moves forward with every document;
\* no document is scanned twice and at the end each was scanned once; the
\* loop ends on the first empty page.
PagingTerminates ==
    /\ (job.script = "delete") ~> (job.script = "delete" /\ job.pc = "done")
    /\ [][job.script = "delete"
          => /\ job'.lastDoc >= job.lastDoc
             /\ (job.pc = "page" /\ job'.pc = "loop")
                => /\ Len(job'.docs) \in 1..pageSize
                   /\ \A k \in DOMAIN job'.docs : job'.docs[k] > job.lastDoc
             /\ (job.pc = "loop" /\ job'.i = job.i + 1) => job'.lastDoc > job.lastDoc
             /\ (job.pc = "page" /\ job'.pc = "done")
                => {doc \in 1..job.n : job.commits[doc] = 0 /\ doc > job.lastDoc} = {}]_vars
    /\ [](job.script = "delete"
          => /\ \A doc \in 1..job.n : job.scans[doc] <= 1
             /\ job.emptyPages <= 1
             /\ job.pc = "done"
                => /\ \A doc \in 1..job.n : job.scans[doc] = 1
                   /\ job.totalScanned = job.n
                   /\ job.emptyPages = 1)

\* C29 witness: deleteTodaysLogs ended on the empty third page, after a full
\* page and a second one.
EndedOnEmptyThirdPage ==
    /\ job.script = "delete"
    /\ job.pc = "done"
    /\ job.n = MaxDocs
    /\ job.pattern = "none"
    /\ job.totalScanned = MaxDocs
    /\ job.lastDoc = MaxDocs
    /\ job.emptyPages = 1
====
